---- MODULE Spec2Model ----
(***************************************************************************)
(* The File Tree (FT) of src/3FT: the facade ft.c over the nodes of        *)
(* nodeFT.c, with the validator of checkerFT.c.                            *)
(*                                                                         *)
(* A string is a sequence of one-character strings.  A Path_T is the       *)
(* sequence of its segments, each segment a non-empty string.  A Node_T is *)
(* an address into the heap; the address of a node is the pair (kind,      *)
(* path) it was allocated for, NULL being the address that holds no node.  *)
(* path.c and dynarray.c are not part of the sources: Path_* and           *)
(* DynArray_* follow sections 3.1, 4.1 and 4.2 of the specification.       *)
(*                                                                         *)
(* What a function computes once and reads several times, such as the      *)
(* result of a call, is the parameter of a local operator:                 *)
(*     LET Found(fn) == ... fn.status ... fn.node ...                      *)
(*     IN  Found(FT_findNode(st, pcPath))                                  *)
(***************************************************************************)
EXTENDS Integers, Sequences, FiniteSets, TLC

(* ---- bounds of the model ---- *)

\* longest path, in segments, that a client passes in
MaxDepth == 3
\* an insertion is attempted only while the tree holds fewer nodes than this
MaxNodes == 3
\* number of allocation failures injected along one behaviour
MaxFaults == 1
\* a removal is attempted only while ulCount stays within this much below 0
MaxWrap == 2

(* ---- a4def.h status codes ---- *)

SUCCESS == "SUCCESS"
INITIALIZATION_ERROR == "INITIALIZATION_ERROR"
BAD_PATH == "BAD_PATH"
CONFLICTING_PATH == "CONFLICTING_PATH"
NO_SUCH_PATH == "NO_SUCH_PATH"
NOT_A_DIRECTORY == "NOT_A_DIRECTORY"
NOT_A_FILE == "NOT_A_FILE"
ALREADY_IN_TREE == "ALREADY_IN_TREE"
MEMORY_ERROR == "MEMORY_ERROR"

(* ---- strings and characters ---- *)

\* ASCII code of a character, the order strcmp compares by
CharCode(c) ==
    CASE c = "." -> 46
      [] c = "/" -> 47
      [] c = "a" -> 97
      [] c = "b" -> 98
      [] c = "c" -> 99
      [] OTHER -> 120

RECURSIVE StrCmp(_, _)
\* strcmp: the sign of the first differing character, a prefix sorting first
StrCmp(s, t) ==
    IF s = <<>> /\ t = <<>> THEN 0
    ELSE IF s = <<>> THEN -1
    ELSE IF t = <<>> THEN 1
    ELSE LET Cmp(x, y) == IF x < y THEN -1
                          ELSE IF x > y THEN 1
                          ELSE StrCmp(Tail(s), Tail(t))
         IN  Cmp(CharCode(Head(s)), CharCode(Head(t)))

RECURSIVE SplitFrom(_, _, _)
\* the segments of s between the '/' separators, cur being the open segment
SplitFrom(s, cur, acc) ==
    IF s = <<>> THEN Append(acc, cur)
    ELSE IF Head(s) = "/" THEN SplitFrom(Tail(s), <<>>, Append(acc, cur))
    ELSE SplitFrom(Tail(s), Append(cur, Head(s)), acc)

Split(s) == SplitFrom(s, <<>>, <<>>)

RECURSIVE Join(_)
\* the canonical string s1/s2/.../sN of a sequence of segments
Join(segs) ==
    IF segs = <<>> THEN <<>>
    ELSE IF Len(segs) = 1 THEN segs[1]
    ELSE segs[1] \o <<"/">> \o Join(Tail(segs))

(* ---- Path ---- *)

\* Path_new: BAD_PATH for the empty string and for an empty segment
Path_new(s) ==
    LET New(segs) ==
            IF s = <<>> \/ \E i \in 1..Len(segs) : segs[i] = <<>>
            THEN [status |-> BAD_PATH, path |-> <<>>]
            ELSE [status |-> SUCCESS, path |-> segs]
    IN  New(Split(s))

Path_getDepth(p) == Len(p)

Path_getPathname(p) == Join(p)

Path_prefix(p, n) ==
    IF n < 1 \/ n > Len(p)
    THEN [status |-> BAD_PATH, path |-> <<>>]
    ELSE [status |-> SUCCESS, path |-> SubSeq(p, 1, n)]

\* Path_comparePath as strcmp of the two canonical strings
Path_comparePath_ByteWise(a, b) == StrCmp(Join(a), Join(b))

RECURSIVE Path_comparePath(_, _)
\* segment by segment, the shorter path first when one is a prefix
Path_comparePath(a, b) ==
    IF a = <<>> /\ b = <<>> THEN 0
    ELSE IF a = <<>> THEN -1
    ELSE IF b = <<>> THEN 1
    ELSE LET Rest(c) == IF c # 0 THEN c
                        ELSE Path_comparePath(Tail(a), Tail(b))
         IN  Rest(StrCmp(Head(a), Head(b)))

\* the string is compared as the path it denotes
Path_compareString(p, s) == Path_comparePath(p, Split(s))

RECURSIVE Path_getSharedPrefixDepth(_, _)
Path_getSharedPrefixDepth(a, b) ==
    IF a = <<>> \/ b = <<>> THEN 0
    ELSE IF Head(a) # Head(b) THEN 0
    ELSE 1 + Path_getSharedPrefixDepth(Tail(a), Tail(b))

(* ---- DynArray ---- *)

\* insert e so that it gets the C index i
DynArray_addAt(arr, i, e) ==
    SubSeq(arr, 1, i) \o <<e>> \o SubSeq(arr, i + 1, Len(arr))

\* remove the element of C index i
DynArray_removeAt(arr, i) ==
    SubSeq(arr, 1, i) \o SubSeq(arr, i + 2, Len(arr))

RECURSIVE BSearchLoop(_, _, _, _, _)
\* cmps[i+1] is the comparison of the element of C index i with the key;
\* lo..hi is the open interval, mid and last the latest probe and its sign
BSearchLoop(cmps, lo, hi, mid, last) ==
    IF lo > hi
    THEN [found |-> FALSE, index |-> IF last < 0 THEN mid + 1 ELSE mid]
    ELSE LET m == lo + ((hi - lo) \div 2)
             c == cmps[m + 1]
         IN  IF c = 0 THEN [found |-> TRUE, index |-> m]
             ELSE IF c < 0 THEN BSearchLoop(cmps, m + 1, hi, m, c)
             ELSE IF m = 0 THEN [found |-> FALSE, index |-> 0]
             ELSE BSearchLoop(cmps, lo, m - 1, m, c)

\* binary search: the index of a match, else the would-be insertion index
DynArray_bsearch(cmps) ==
    IF Len(cmps) = 0 THEN [found |-> FALSE, index |-> 0]
    ELSE BSearchLoop(cmps, 0, Len(cmps) - 1, 0, -1)

(* ---- nodeFT.c ---- *)

\* the address that holds no node
NULL == [f |-> FALSE, p |-> <<>>]

\* the address malloc hands out for a node of this kind and path
Addr(isFile, path) == [f |-> isFile, p |-> path]

\* a void* buffer: the null pointer, or the bytes it points to
NullBuf == [null |-> TRUE, bytes |-> <<>>]

Buf(bytes) == [null |-> FALSE, bytes |-> bytes]

\* the child array of the given kind
ChildArray(h, n, isFile) ==
    IF isFile THEN h[n].fileChildren ELSE h[n].dirChildren

SetChildArray(h, n, isFile, arr) ==
    IF isFile THEN [h EXCEPT ![n].fileChildren = arr]
    ELSE [h EXCEPT ![n].dirChildren = arr]

NodeFT_compareNodes(h, node1, node2) ==
    Path_comparePath(h[node1].path, h[node2].path)

NodeFT_comparePathString(h, node, pathStr) ==
    Path_compareString(h[node].path, pathStr)

NodeFT_getPath(h, node) == h[node].path

NodeFT_getParent(h, node) == h[node].parent

NodeFT_isFile(h, node) == IF node = NULL THEN FALSE ELSE h[node].isFile

\* NodeFT_hasChild that searches the directory children whatever the kind
NodeFT_hasChild_DirArrayOnly(h, parent, childPath, isFile) ==
    LET arr == ChildArray(h, parent, FALSE)
        str == Path_getPathname(childPath)
    IN  DynArray_bsearch([i \in 1..Len(arr) |->
                             NodeFT_comparePathString(h, arr[i], str)])

\* binary search of the child array of the given kind for childPath
NodeFT_hasChild(h, parent, childPath, isFile) ==
    LET arr == ChildArray(h, parent, isFile)
        str == Path_getPathname(childPath)
    IN  DynArray_bsearch([i \in 1..Len(arr) |->
                             NodeFT_comparePathString(h, arr[i], str)])

NodeFT_getNumChildren(h, parent, isFile) == Len(ChildArray(h, parent, isFile))

NodeFT_getChild(h, parent, childID, isFile) ==
    IF childID >= Len(ChildArray(h, parent, isFile))
    THEN [status |-> NO_SUCH_PATH, node |-> NULL]
    ELSE [status |-> SUCCESS, node |-> ChildArray(h, parent, isFile)[childID + 1]]

\* NodeFT_initializeNode leaving the parent link of the new node null
NodeFT_initializeNode_NoParent(path, parent, isFile) ==
    [path |-> path, parent |-> NULL, isFile |-> isFile,
     dirChildren |-> <<>>, fileChildren |-> <<>>,
     contents |-> NullBuf, contentLength |-> 0, freed |-> FALSE]

\* the node as NodeFT_initializeNode leaves it
NodeFT_initializeNode(path, parent, isFile) ==
    [path |-> path, parent |-> parent, isFile |-> isFile,
     dirChildren |-> <<>>, fileChildren |-> <<>>,
     contents |-> NullBuf, contentLength |-> 0, freed |-> FALSE]

NodeFT_validateParentChild(h, parent, path) ==
    IF parent = NULL
    THEN IF Path_getDepth(path) # 1 THEN NO_SUCH_PATH ELSE SUCCESS
    ELSE IF Path_getSharedPrefixDepth(path, h[parent].path)
              < Path_getDepth(h[parent].path)
         THEN CONFLICTING_PATH
         ELSE IF Path_getDepth(path) # Path_getDepth(h[parent].path) + 1
              THEN NO_SUCH_PATH
              ELSE SUCCESS

\* NodeFT_insertChild appending the child instead of placing it at the
\* index the search returns
NodeFT_insertChild_Appends(h, parentNode, child, childPath, isFile, linkFails) ==
    LET Link(r) ==
            IF r.found THEN [status |-> ALREADY_IN_TREE, heap |-> h]
            ELSE IF linkFails THEN [status |-> MEMORY_ERROR, heap |-> h]
            ELSE [status |-> SUCCESS,
                  heap |-> SetChildArray(h, parentNode, isFile,
                              DynArray_addAt(ChildArray(h, parentNode, isFile),
                                             Len(ChildArray(h, parentNode,
                                                            isFile)),
                                             child))]
    IN  Link(NodeFT_hasChild(h, parentNode, childPath, isFile))

\* NodeFT_insertChild that links every child into the directory children
NodeFT_insertChild_IntoDirArray(h, parentNode, child, childPath, isFile, linkFails) ==
    LET Link(r) ==
            IF r.found THEN [status |-> ALREADY_IN_TREE, heap |-> h]
            ELSE IF linkFails THEN [status |-> MEMORY_ERROR, heap |-> h]
            ELSE [status |-> SUCCESS,
                  heap |-> SetChildArray(h, parentNode, FALSE,
                              DynArray_addAt(ChildArray(h, parentNode, FALSE),
                                             r.index, child))]
    IN  Link(NodeFT_hasChild(h, parentNode, childPath, isFile))

\* NodeFT_insertChild that links the child in front of its siblings,
\* whatever index the search returns
NodeFT_insertChild_AtFront(h, parentNode, child, childPath, isFile, linkFails) ==
    LET Link(r) ==
            IF r.found THEN [status |-> ALREADY_IN_TREE, heap |-> h]
            ELSE IF linkFails THEN [status |-> MEMORY_ERROR, heap |-> h]
            ELSE [status |-> SUCCESS,
                  heap |-> SetChildArray(h, parentNode, isFile,
                              DynArray_addAt(ChildArray(h, parentNode, isFile),
                                             0, child))]
    IN  Link(NodeFT_hasChild(h, parentNode, childPath, isFile))

\* links child into the array of its kind at the index the search returns;
\* linkFails is the failure of DynArray_addAt to grow the array
NodeFT_insertChild(h, parentNode, child, childPath, isFile, linkFails) ==
    LET Link(r) ==
            IF r.found THEN [status |-> ALREADY_IN_TREE, heap |-> h]
            ELSE IF linkFails THEN [status |-> MEMORY_ERROR, heap |-> h]
            ELSE [status |-> SUCCESS,
                  heap |-> SetChildArray(h, parentNode, isFile,
                              DynArray_addAt(ChildArray(h, parentNode, isFile),
                                             r.index, child))]
    IN  Link(NodeFT_hasChild(h, parentNode, childPath, isFile))

\* NodeFT_new that allocates the node and leaves the array of the parent
\* as it was
NodeFT_new_Unlinked(h, path, parent, isFile, fault) ==
    LET a == Addr(isFile, path)
        Made(v, ins) ==
            IF fault = "node"
            THEN [status |-> MEMORY_ERROR, heap |-> h, node |-> NULL]
            ELSE IF v # SUCCESS THEN [status |-> v, heap |-> h, node |-> NULL]
            ELSE IF parent = NULL
            THEN [status |-> SUCCESS, node |-> a,
                  heap |-> (a :> NodeFT_initializeNode(path, parent, isFile))
                              @@ h]
            ELSE IF ins.status # SUCCESS
            THEN [status |-> ins.status, heap |-> h, node |-> NULL]
            ELSE [status |-> SUCCESS, node |-> a,
                  heap |-> (a :> NodeFT_initializeNode(path, parent, isFile))
                              @@ h]
    IN  Made(NodeFT_validateParentChild(h, parent, path),
             NodeFT_insertChild(h, parent, a, path, isFile, fault = "link"))

\* fault is "node" when the allocation of the node fails, "link" when
\* linking it into the parent fails, anything else when neither does
NodeFT_new(h, path, parent, isFile, fault) ==
    LET a == Addr(isFile, path)
        Made(v, ins) ==
            IF fault = "node"
            THEN [status |-> MEMORY_ERROR, heap |-> h, node |-> NULL]
            ELSE IF v # SUCCESS THEN [status |-> v, heap |-> h, node |-> NULL]
            ELSE IF parent = NULL
            THEN [status |-> SUCCESS, node |-> a,
                  heap |-> (a :> NodeFT_initializeNode(path, parent, isFile))
                              @@ h]
            ELSE IF ins.status # SUCCESS
            THEN [status |-> ins.status, heap |-> h, node |-> NULL]
            ELSE [status |-> SUCCESS, node |-> a,
                  heap |-> (a :> NodeFT_initializeNode(path, parent, isFile))
                              @@ ins.heap]
    IN  Made(NodeFT_validateParentChild(h, parent, path),
             NodeFT_insertChild(h, parent, a, path, isFile, fault = "link"))

\* NodeFT_removeFromParent that leaves the array of the parent as it is
NodeFT_removeFromParent_KeepsChild(h, node) == h

\* unlinks node from the array of its kind of its parent, when found there
NodeFT_removeFromParent(h, node) ==
    IF h[node].parent = NULL THEN h
    ELSE LET par == h[node].parent
             arr == ChildArray(h, par, h[node].isFile)
             Unlink(r) ==
                 IF r.found
                 THEN SetChildArray(h, par, h[node].isFile,
                                    DynArray_removeAt(arr, r.index))
                 ELSE h
         IN  Unlink(DynArray_bsearch([i \in 1..Len(arr) |->
                                        NodeFT_compareNodes(h, arr[i], node)]))

RECURSIVE NodeFT_free(_, _)
RECURSIVE FreeChildren(_, _, _)
\* the loop "while the array of this kind is not empty, free its first
\* element"; hang when an element does not leave the array
FreeChildren(h, node, isFile) ==
    LET arr == ChildArray(h, node, isFile)
        Rest(r, rest) ==
            [heap |-> rest.heap, count |-> r.count + rest.count,
             hang |-> rest.hang]
        First(r) ==
            IF r.hang \/ Len(ChildArray(r.heap, node, isFile)) >= Len(arr)
            THEN [heap |-> r.heap, count |-> r.count, hang |-> TRUE]
            ELSE Rest(r, FreeChildren(r.heap, node, isFile))
    IN  IF arr = <<>> THEN [heap |-> h, count |-> 0, hang |-> FALSE]
        ELSE First(NodeFT_free(h, arr[1]))

\* frees the subtree of node, directory children first, and counts it; a
\* freed block keeps its last bytes until the sweep at the end of the call
NodeFT_free(h, node) ==
    LET Freed(h1, d, f) ==
            IF h[node].isFile
            THEN [heap |-> [h1 EXCEPT ![node].freed = TRUE], count |-> 1,
                  hang |-> FALSE]
            ELSE [heap |-> [f.heap EXCEPT ![node].freed = TRUE],
                  count |-> d.count + f.count + 1,
                  hang |-> d.hang \/ f.hang]
        Files(h1, d) ==
            Freed(h1, d, IF d.hang THEN d ELSE FreeChildren(d.heap, node, TRUE))
        Dirs(h1) == Files(h1, FreeChildren(h1, node, FALSE))
    IN  Dirs(NodeFT_removeFromParent(h, node))

NodeFT_getContents(h, node) == h[node].contents

NodeFT_getContentLength(h, node) == h[node].contentLength

\* copyFails is the failure of malloc for the copy of the new contents
NodeFT_setContents(h, node, newContents, newLength, copyFails) ==
    IF ~newContents.null /\ newLength > 0
    THEN IF copyFails
         THEN [status |-> MEMORY_ERROR,
               heap |-> [h EXCEPT ![node].contents = NullBuf,
                                  ![node].contentLength = 0]]
         ELSE [status |-> SUCCESS,
               heap |-> [h EXCEPT
                   ![node].contents = Buf(SubSeq(newContents.bytes, 1, newLength)),
                   ![node].contentLength = newLength]]
    ELSE [status |-> SUCCESS,
          heap |-> [h EXCEPT ![node].contents = NullBuf,
                             ![node].contentLength = 0]]

\* "File: <path>" or "Dir:  <path>"
NodeFT_toString(h, node) ==
    (IF h[node].isFile THEN <<"F", "i", "l", "e", ":", " ">>
     ELSE <<"D", "i", "r", ":", " ", " ">>)
    \o Path_getPathname(h[node].path)

RECURSIVE ReachFrom(_, _)
\* the addresses of the nodes linked below n, and n
ReachFrom(h, n) ==
    {n} \cup UNION {ReachFrom(h, h[n].dirChildren[i]) : i \in 1..Len(h[n].dirChildren)}
        \cup UNION {ReachFrom(h, h[n].fileChildren[i]) : i \in 1..Len(h[n].fileChildren)}

\* the nodes a walk from root reaches
Reachable(h, root) == IF root = NULL THEN {} ELSE ReachFrom(h, root)

\* the heap without the blocks no pointer of the program leads to
Sweep(h, root) == [a \in Reachable(h, root) |-> h[a]]

(* ---- ft.c: the state and the static helpers ---- *)

VARIABLES
    bIsInitialized,  \* ft.c: whether the File Tree has been initialized
    oNRoot,          \* ft.c: the address of the root node, or NULL
    ulCount,         \* ft.c: the node count; a size_t, held as the
                     \* representative of least magnitude of its value
                     \* modulo 2^64, so that 0 - 1 reads -1
    heap,            \* the nodes the program can reach, by address
    op,              \* the call the client has just made, with its
                     \* arguments, or "idle" once it has taken the result
    result,          \* what that call returned
    halted,          \* the process has aborted or hangs in a call
    faults           \* allocation failures injected so far

vars == <<bIsInitialized, oNRoot, ulCount, heap, op, result, halted, faults>>

\* the three statics of ft.c and the heap, as one value
State == [init |-> bIsInitialized, root |-> oNRoot, count |-> ulCount,
          heap |-> heap]

\* no allocation of the call fails
NoFault == [k |-> 0, at |-> "none"]

RECURSIVE TraverseLoop_DirsOnly(_, _, _, _, _)
\* TraverseLoop looking up directory children only
TraverseLoop_DirsOnly(h, oPPath, oNCurrNode, ulIndex, bFoundFile) ==
    IF ulIndex > Path_getDepth(oPPath)
    THEN [status |-> SUCCESS, node |-> oNCurrNode, isFile |-> bFoundFile]
    ELSE LET Descend(c, bIsFile) ==
                 IF c.status # SUCCESS
                 THEN [status |-> c.status, node |-> NULL, isFile |-> FALSE]
                 ELSE TraverseLoop_DirsOnly(h, oPPath, c.node, ulIndex + 1, bIsFile)
             Look(pre, f, d) ==
                 IF pre.status # SUCCESS
                 THEN [status |-> pre.status, node |-> NULL, isFile |-> FALSE]
                 ELSE IF NodeFT_isFile(h, oNCurrNode)
                 THEN [status |-> NOT_A_DIRECTORY, node |-> oNCurrNode,
                       isFile |-> TRUE]
                 ELSE IF d.found
                 THEN Descend(NodeFT_getChild(h, oNCurrNode, d.index, FALSE),
                              FALSE)
                 ELSE [status |-> SUCCESS, node |-> oNCurrNode,
                       isFile |-> bFoundFile]
             Step(pre) ==
                 Look(pre, NodeFT_hasChild(h, oNCurrNode, pre.path, TRUE),
                      NodeFT_hasChild(h, oNCurrNode, pre.path, FALSE))
         IN  Step(Path_prefix(oPPath, ulIndex))

RECURSIVE TraverseLoop_FilesOnly(_, _, _, _, _)
\* TraverseLoop that looks for the next prefix among the file children only
TraverseLoop_FilesOnly(h, oPPath, oNCurrNode, ulIndex, bFoundFile) ==
    IF ulIndex > Path_getDepth(oPPath)
    THEN [status |-> SUCCESS, node |-> oNCurrNode, isFile |-> bFoundFile]
    ELSE LET Descend(c, bIsFile) ==
                 IF c.status # SUCCESS
                 THEN [status |-> c.status, node |-> NULL, isFile |-> FALSE]
                 ELSE TraverseLoop_FilesOnly(h, oPPath, c.node, ulIndex + 1, bIsFile)
             Look(pre, f, d) ==
                 IF pre.status # SUCCESS
                 THEN [status |-> pre.status, node |-> NULL, isFile |-> FALSE]
                 ELSE IF NodeFT_isFile(h, oNCurrNode)
                 THEN [status |-> NOT_A_DIRECTORY, node |-> oNCurrNode,
                       isFile |-> TRUE]
                 ELSE IF f.found
                 THEN Descend(NodeFT_getChild(h, oNCurrNode, f.index, TRUE),
                              TRUE)
                 ELSE [status |-> SUCCESS, node |-> oNCurrNode,
                       isFile |-> bFoundFile]
             Step(pre) ==
                 Look(pre, NodeFT_hasChild(h, oNCurrNode, pre.path, TRUE),
                      NodeFT_hasChild(h, oNCurrNode, pre.path, FALSE))
         IN  Step(Path_prefix(oPPath, ulIndex))

RECURSIVE TraverseLoop(_, _, _, _, _)
\* the while loop of FT_traversePath, at ulIndex with oNCurrNode
TraverseLoop(h, oPPath, oNCurrNode, ulIndex, bFoundFile) ==
    IF ulIndex > Path_getDepth(oPPath)
    THEN [status |-> SUCCESS, node |-> oNCurrNode, isFile |-> bFoundFile]
    ELSE LET Descend(c, bIsFile) ==
                 IF c.status # SUCCESS
                 THEN [status |-> c.status, node |-> NULL, isFile |-> FALSE]
                 ELSE TraverseLoop(h, oPPath, c.node, ulIndex + 1, bIsFile)
             Look(pre, f, d) ==
                 IF pre.status # SUCCESS
                 THEN [status |-> pre.status, node |-> NULL, isFile |-> FALSE]
                 ELSE IF NodeFT_isFile(h, oNCurrNode)
                 THEN [status |-> NOT_A_DIRECTORY, node |-> oNCurrNode,
                       isFile |-> TRUE]
                 ELSE IF f.found
                 THEN Descend(NodeFT_getChild(h, oNCurrNode, f.index, TRUE),
                              TRUE)
                 ELSE IF d.found
                 THEN Descend(NodeFT_getChild(h, oNCurrNode, d.index, FALSE),
                              FALSE)
                 ELSE [status |-> SUCCESS, node |-> oNCurrNode,
                       isFile |-> bFoundFile]
             Step(pre) ==
                 Look(pre, NodeFT_hasChild(h, oNCurrNode, pre.path, TRUE),
                      NodeFT_hasChild(h, oNCurrNode, pre.path, FALSE))
         IN  Step(Path_prefix(oPPath, ulIndex))

\* FT_traversePath without the comparison of the root with the first segment
FT_traversePath_NoRootTest(st, oPPath) ==
    IF st.root = NULL
    THEN [status |-> SUCCESS, node |-> NULL, isFile |-> FALSE]
    ELSE LET FromRoot(pre) ==
                 IF pre.status # SUCCESS
                 THEN [status |-> pre.status, node |-> NULL, isFile |-> FALSE]
                 ELSE TraverseLoop(st.heap, oPPath, st.root, 2, FALSE)
         IN  FromRoot(Path_prefix(oPPath, 1))

\* the deepest node on the way to oPPath, file children looked up first
FT_traversePath(st, oPPath) ==
    IF st.root = NULL
    THEN [status |-> SUCCESS, node |-> NULL, isFile |-> FALSE]
    ELSE LET FromRoot(pre) ==
                 IF pre.status # SUCCESS
                 THEN [status |-> pre.status, node |-> NULL, isFile |-> FALSE]
                 ELSE IF Path_comparePath(NodeFT_getPath(st.heap, st.root),
                                          pre.path) # 0
                 THEN [status |-> CONFLICTING_PATH, node |-> NULL,
                       isFile |-> FALSE]
                 ELSE TraverseLoop(st.heap, oPPath, st.root, 2, FALSE)
         IN  FromRoot(Path_prefix(oPPath, 1))

\* FT_findNode without the test of bIsInitialized
FT_findNode_NoInitCheck(st, pcPath) ==
    LET Found(pn, t) ==
            IF t.status # SUCCESS THEN [status |-> t.status, node |-> NULL]
            ELSE IF t.node = NULL THEN [status |-> NO_SUCH_PATH, node |-> NULL]
            ELSE IF Path_comparePath(NodeFT_getPath(st.heap, t.node),
                                     pn.path) # 0
            THEN [status |-> NO_SUCH_PATH, node |-> NULL]
            ELSE [status |-> SUCCESS, node |-> t.node]
        Parsed(pn) ==
            IF pn.status # SUCCESS THEN [status |-> pn.status, node |-> NULL]
            ELSE Found(pn, FT_traversePath(st, pn.path))
    IN  Parsed(Path_new(pcPath))

\* the node whose path is exactly pcPath
FT_findNode(st, pcPath) ==
    LET Found(pn, t) ==
            IF t.status # SUCCESS THEN [status |-> t.status, node |-> NULL]
            ELSE IF t.node = NULL THEN [status |-> NO_SUCH_PATH, node |-> NULL]
            ELSE IF Path_comparePath(NodeFT_getPath(st.heap, t.node),
                                     pn.path) # 0
            THEN [status |-> NO_SUCH_PATH, node |-> NULL]
            ELSE [status |-> SUCCESS, node |-> t.node]
        Parsed(pn) ==
            IF pn.status # SUCCESS THEN [status |-> pn.status, node |-> NULL]
            ELSE Found(pn, FT_traversePath(st, pn.path))
    IN  IF ~st.init THEN [status |-> INITIALIZATION_ERROR, node |-> NULL]
        ELSE Parsed(Path_new(pcPath))

\* frees the chain of new nodes, when there is one, and passes iStatus on
FT_handleInsertError(iStatus, h, oNNewNodes) ==
    LET Freed(fr) == [status |-> iStatus, heap |-> fr.heap, hang |-> fr.hang]
    IN  IF oNNewNodes # NULL THEN Freed(NodeFT_free(h, oNNewNodes))
        ELSE [status |-> iStatus, heap |-> h, hang |-> FALSE]

RECURSIVE PreOrderFrom(_, _)
RECURSIVE PreOrderChildren(_, _, _, _)
\* the subtrees of the children of C index i and up, of one kind, in order
PreOrderChildren(h, oNNode, isFile, i) ==
    IF i >= NodeFT_getNumChildren(h, oNNode, isFile) THEN <<>>
    ELSE PreOrderFrom(h, NodeFT_getChild(h, oNNode, i, isFile).node)
         \o PreOrderChildren(h, oNNode, isFile, i + 1)

\* the node, then its file children, then its directory children
PreOrderFrom(h, oNNode) ==
    IF oNNode = NULL THEN <<>>
    ELSE IF NodeFT_isFile(h, oNNode) THEN <<oNNode>>
    ELSE <<oNNode>> \o PreOrderChildren(h, oNNode, TRUE, 0)
                    \o PreOrderChildren(h, oNNode, FALSE, 0)

FT_preOrderTraversal(h, oNNode) == PreOrderFrom(h, oNNode)

(* ---- ft.c: the public interface ---- *)

FT_init(st) ==
    IF st.init THEN [status |-> INITIALIZATION_ERROR, st |-> st]
    ELSE [status |-> SUCCESS,
          st |-> [st EXCEPT !.init = TRUE, !.root = NULL, !.count = 0]]

FT_destroy(st) ==
    LET Freed(fr) ==
            [status |-> SUCCESS, hang |-> fr.hang,
             st |-> [init |-> FALSE, root |-> NULL,
                     count |-> st.count - fr.count, heap |-> fr.heap]]
    IN  IF ~st.init
        THEN [status |-> INITIALIZATION_ERROR, st |-> st, hang |-> FALSE]
        ELSE IF st.root # NULL THEN Freed(NodeFT_free(st.heap, st.root))
        ELSE [status |-> SUCCESS, hang |-> FALSE,
              st |-> [st EXCEPT !.init = FALSE]]

RECURSIVE InsertDirLoop_BuildsFiles(_, _, _, _, _, _, _)
\* the building loop of FT_insertDir passing TRUE for isFile to NodeFT_new
InsertDirLoop_BuildsFiles(h, oPPath, oNCurrNode, ulIndex, oNNewNodes, n, fault) ==
    IF ulIndex > Path_getDepth(oPPath)
    THEN [status |-> SUCCESS, heap |-> h, first |-> oNNewNodes, n |-> n,
          hang |-> FALSE]
    ELSE LET Failed(err) ==
                 [status |-> err.status, heap |-> err.heap,
                  first |-> oNNewNodes, n |-> n, hang |-> err.hang]
             Built(pre, nw) ==
                 IF pre.status # SUCCESS
                 THEN Failed(FT_handleInsertError(pre.status, h, oNNewNodes))
                 ELSE IF nw.status # SUCCESS
                 THEN Failed(FT_handleInsertError(nw.status, h, oNNewNodes))
                 ELSE InsertDirLoop_BuildsFiles(nw.heap, oPPath, nw.node, ulIndex + 1,
                                    IF oNNewNodes = NULL THEN nw.node
                                    ELSE oNNewNodes,
                                    n + 1, fault)
             Step(pre) ==
                 Built(pre, NodeFT_new(h, pre.path, oNCurrNode, TRUE,
                                       IF fault.k = n + 1 THEN fault.at
                                       ELSE "none"))
         IN  Step(Path_prefix(oPPath, ulIndex))

RECURSIVE InsertDirLoop(_, _, _, _, _, _, _)
\* the building loop of FT_insertDir: ulIndex is the depth of the next node,
\* oNNewNodes the first node built, n the number built, fault the injected
\* failure, counted in nodes built
InsertDirLoop(h, oPPath, oNCurrNode, ulIndex, oNNewNodes, n, fault) ==
    IF ulIndex > Path_getDepth(oPPath)
    THEN [status |-> SUCCESS, heap |-> h, first |-> oNNewNodes, n |-> n,
          hang |-> FALSE]
    ELSE LET Failed(err) ==
                 [status |-> err.status, heap |-> err.heap,
                  first |-> oNNewNodes, n |-> n, hang |-> err.hang]
             Built(pre, nw) ==
                 IF pre.status # SUCCESS
                 THEN Failed(FT_handleInsertError(pre.status, h, oNNewNodes))
                 ELSE IF nw.status # SUCCESS
                 THEN Failed(FT_handleInsertError(nw.status, h, oNNewNodes))
                 ELSE InsertDirLoop(nw.heap, oPPath, nw.node, ulIndex + 1,
                                    IF oNNewNodes = NULL THEN nw.node
                                    ELSE oNNewNodes,
                                    n + 1, fault)
             Step(pre) ==
                 Built(pre, NodeFT_new(h, pre.path, oNCurrNode, FALSE,
                                       IF fault.k = n + 1 THEN fault.at
                                       ELSE "none"))
         IN  Step(Path_prefix(oPPath, ulIndex))

\* FT_insertDir without the test for a node that is already at pcPath
FT_insertDir_NoDuplicateTest(st, pcPath, fault) ==
    LET Done(b) ==
            IF b.status # SUCCESS
            THEN [status |-> b.status, hang |-> b.hang,
                  st |-> [st EXCEPT !.heap = b.heap]]
            ELSE [status |-> SUCCESS, hang |-> FALSE,
                  st |-> [st EXCEPT !.heap = b.heap,
                                    !.root = IF st.root = NULL THEN b.first
                                             ELSE st.root,
                                    !.count = st.count + b.n]]
        Build(pn, t, ulCurrDepth) ==
            Done(InsertDirLoop(st.heap, pn.path, t.node, ulCurrDepth + 1,
                                    NULL, 0, fault))
        Found(pn, t) ==
            IF t.status # SUCCESS
            THEN [status |-> t.status, st |-> st, hang |-> FALSE]
            ELSE IF t.node = NULL /\ st.root # NULL
            THEN [status |-> CONFLICTING_PATH, st |-> st, hang |-> FALSE]
            ELSE IF t.isFile
            THEN [status |-> NOT_A_DIRECTORY, st |-> st, hang |-> FALSE]
            ELSE Build(pn, t,
                       IF t.node # NULL
                       THEN Path_getDepth(NodeFT_getPath(st.heap, t.node))
                       ELSE 0)
        Parsed(pn) ==
            IF pn.status # SUCCESS
            THEN [status |-> pn.status, st |-> st, hang |-> FALSE]
            ELSE Found(pn, FT_traversePath(st, pn.path))
    IN  IF ~st.init
        THEN [status |-> INITIALIZATION_ERROR, st |-> st, hang |-> FALSE]
        ELSE Parsed(Path_new(pcPath))

FT_insertDir(st, pcPath, fault) ==
    LET Done(b) ==
            IF b.status # SUCCESS
            THEN [status |-> b.status, hang |-> b.hang,
                  st |-> [st EXCEPT !.heap = b.heap]]
            ELSE [status |-> SUCCESS, hang |-> FALSE,
                  st |-> [st EXCEPT !.heap = b.heap,
                                    !.root = IF st.root = NULL THEN b.first
                                             ELSE st.root,
                                    !.count = st.count + b.n]]
        Build(pn, t, ulCurrDepth) ==
            IF ulCurrDepth = Path_getDepth(pn.path)
               /\ Path_comparePath(NodeFT_getPath(st.heap, t.node), pn.path) = 0
            THEN [status |-> ALREADY_IN_TREE, st |-> st, hang |-> FALSE]
            ELSE Done(InsertDirLoop(st.heap, pn.path, t.node, ulCurrDepth + 1,
                                    NULL, 0, fault))
        Found(pn, t) ==
            IF t.status # SUCCESS
            THEN [status |-> t.status, st |-> st, hang |-> FALSE]
            ELSE IF t.node = NULL /\ st.root # NULL
            THEN [status |-> CONFLICTING_PATH, st |-> st, hang |-> FALSE]
            ELSE IF t.isFile
            THEN [status |-> NOT_A_DIRECTORY, st |-> st, hang |-> FALSE]
            ELSE Build(pn, t,
                       IF t.node # NULL
                       THEN Path_getDepth(NodeFT_getPath(st.heap, t.node))
                       ELSE 0)
        Parsed(pn) ==
            IF pn.status # SUCCESS
            THEN [status |-> pn.status, st |-> st, hang |-> FALSE]
            ELSE Found(pn, FT_traversePath(st, pn.path))
    IN  IF ~st.init
        THEN [status |-> INITIALIZATION_ERROR, st |-> st, hang |-> FALSE]
        ELSE Parsed(Path_new(pcPath))

RECURSIVE InsertFileLoop_AllFiles(_, _, _, _, _, _, _, _, _)
\* the building loop of FT_insertFile with bIsFileNode TRUE at every depth
InsertFileLoop_AllFiles(h, oPPath, oNCurrNode, ulIndex, oNNewNodes, n, pv, ul, fault) ==
    IF ulIndex > Path_getDepth(oPPath)
    THEN [status |-> SUCCESS, heap |-> h, first |-> oNNewNodes, n |-> n,
          hang |-> FALSE]
    ELSE LET bIsFileNode == TRUE
             at == IF fault.k = n + 1 THEN fault.at ELSE "none"
             Failed(err) ==
                 [status |-> err.status, heap |-> err.heap,
                  first |-> oNNewNodes, n |-> n, hang |-> err.hang]
             Entered(hh, oNNewNode) ==
                 InsertFileLoop_AllFiles(hh, oPPath, oNNewNode, ulIndex + 1,
                                IF oNNewNodes = NULL THEN oNNewNode
                                ELSE oNNewNodes,
                                n + 1, pv, ul, fault)
             Filled(nw, sc) ==
                 IF sc.status # SUCCESS
                 THEN Failed(FT_handleInsertError(sc.status, sc.heap,
                                                  oNNewNodes))
                 ELSE Entered(sc.heap, nw.node)
             Built(pre, nw) ==
                 IF pre.status # SUCCESS
                 THEN Failed(FT_handleInsertError(pre.status, h, oNNewNodes))
                 ELSE IF nw.status # SUCCESS
                 THEN Failed(FT_handleInsertError(nw.status, h, oNNewNodes))
                 ELSE IF bIsFileNode
                 THEN Filled(nw, NodeFT_setContents(nw.heap, nw.node, pv, ul,
                                                    at = "contents"))
                 ELSE Entered(nw.heap, nw.node)
             Step(pre) ==
                 Built(pre, NodeFT_new(h, pre.path, oNCurrNode, bIsFileNode, at))
         IN  Step(Path_prefix(oPPath, ulIndex))

RECURSIVE InsertFileLoop(_, _, _, _, _, _, _, _, _)
\* the building loop of FT_insertFile; the last node is the file, and gets
\* its contents (pv, ul) before it is entered as a new node
InsertFileLoop(h, oPPath, oNCurrNode, ulIndex, oNNewNodes, n, pv, ul, fault) ==
    IF ulIndex > Path_getDepth(oPPath)
    THEN [status |-> SUCCESS, heap |-> h, first |-> oNNewNodes, n |-> n,
          hang |-> FALSE]
    ELSE LET bIsFileNode == (ulIndex = Path_getDepth(oPPath))
             at == IF fault.k = n + 1 THEN fault.at ELSE "none"
             Failed(err) ==
                 [status |-> err.status, heap |-> err.heap,
                  first |-> oNNewNodes, n |-> n, hang |-> err.hang]
             Entered(hh, oNNewNode) ==
                 InsertFileLoop(hh, oPPath, oNNewNode, ulIndex + 1,
                                IF oNNewNodes = NULL THEN oNNewNode
                                ELSE oNNewNodes,
                                n + 1, pv, ul, fault)
             Filled(nw, sc) ==
                 IF sc.status # SUCCESS
                 THEN Failed(FT_handleInsertError(sc.status, sc.heap,
                                                  oNNewNodes))
                 ELSE Entered(sc.heap, nw.node)
             Built(pre, nw) ==
                 IF pre.status # SUCCESS
                 THEN Failed(FT_handleInsertError(pre.status, h, oNNewNodes))
                 ELSE IF nw.status # SUCCESS
                 THEN Failed(FT_handleInsertError(nw.status, h, oNNewNodes))
                 ELSE IF bIsFileNode
                 THEN Filled(nw, NodeFT_setContents(nw.heap, nw.node, pv, ul,
                                                    at = "contents"))
                 ELSE Entered(nw.heap, nw.node)
             Step(pre) ==
                 Built(pre, NodeFT_new(h, pre.path, oNCurrNode, bIsFileNode, at))
         IN  Step(Path_prefix(oPPath, ulIndex))

\* FT_insertFile without the test for a path of depth 1
FT_insertFile_NoDepthTest(st, pcPath, pvContents, ulLength, fault) ==
    LET Done(b) ==
            IF b.status # SUCCESS
            THEN [status |-> b.status, hang |-> b.hang,
                  st |-> [st EXCEPT !.heap = b.heap]]
            ELSE [status |-> SUCCESS, hang |-> FALSE,
                  st |-> [st EXCEPT !.heap = b.heap,
                                    !.root = IF st.root = NULL THEN b.first
                                             ELSE st.root,
                                    !.count = st.count + b.n]]
        Build(pn, t, ulCurrDepth) ==
            IF ulCurrDepth = Path_getDepth(pn.path)
               /\ Path_comparePath(NodeFT_getPath(st.heap, t.node), pn.path) = 0
            THEN [status |-> ALREADY_IN_TREE, st |-> st, hang |-> FALSE]
            ELSE Done(InsertFileLoop(st.heap, pn.path, t.node, ulCurrDepth + 1,
                                     NULL, 0, pvContents, ulLength, fault))
        Found(pn, t) ==
            IF t.status # SUCCESS
            THEN [status |-> t.status, st |-> st, hang |-> FALSE]
            ELSE IF t.node = NULL
            THEN [status |-> CONFLICTING_PATH, st |-> st, hang |-> FALSE]
            ELSE IF t.isFile
            THEN [status |-> NOT_A_DIRECTORY, st |-> st, hang |-> FALSE]
            ELSE Build(pn, t,
                       IF t.node # NULL
                       THEN Path_getDepth(NodeFT_getPath(st.heap, t.node))
                       ELSE 0)
        Parsed(pn) ==
            IF pn.status # SUCCESS
            THEN [status |-> pn.status, st |-> st, hang |-> FALSE]
            ELSE Found(pn, FT_traversePath(st, pn.path))
    IN  IF ~st.init
        THEN [status |-> INITIALIZATION_ERROR, st |-> st, hang |-> FALSE]
        ELSE Parsed(Path_new(pcPath))

FT_insertFile(st, pcPath, pvContents, ulLength, fault) ==
    LET Done(b) ==
            IF b.status # SUCCESS
            THEN [status |-> b.status, hang |-> b.hang,
                  st |-> [st EXCEPT !.heap = b.heap]]
            ELSE [status |-> SUCCESS, hang |-> FALSE,
                  st |-> [st EXCEPT !.heap = b.heap,
                                    !.root = IF st.root = NULL THEN b.first
                                             ELSE st.root,
                                    !.count = st.count + b.n]]
        Build(pn, t, ulCurrDepth) ==
            IF ulCurrDepth = Path_getDepth(pn.path)
               /\ Path_comparePath(NodeFT_getPath(st.heap, t.node), pn.path) = 0
            THEN [status |-> ALREADY_IN_TREE, st |-> st, hang |-> FALSE]
            ELSE Done(InsertFileLoop(st.heap, pn.path, t.node, ulCurrDepth + 1,
                                     NULL, 0, pvContents, ulLength, fault))
        Found(pn, t) ==
            IF t.status # SUCCESS
            THEN [status |-> t.status, st |-> st, hang |-> FALSE]
            ELSE IF t.node = NULL
            THEN [status |-> CONFLICTING_PATH, st |-> st, hang |-> FALSE]
            ELSE IF t.isFile
            THEN [status |-> NOT_A_DIRECTORY, st |-> st, hang |-> FALSE]
            ELSE Build(pn, t,
                       IF t.node # NULL
                       THEN Path_getDepth(NodeFT_getPath(st.heap, t.node))
                       ELSE 0)
        Parsed(pn) ==
            IF pn.status # SUCCESS
            THEN [status |-> pn.status, st |-> st, hang |-> FALSE]
            ELSE IF Path_getDepth(pn.path) = 1
            THEN [status |-> CONFLICTING_PATH, st |-> st, hang |-> FALSE]
            ELSE Found(pn, FT_traversePath(st, pn.path))
    IN  IF ~st.init
        THEN [status |-> INITIALIZATION_ERROR, st |-> st, hang |-> FALSE]
        ELSE Parsed(Path_new(pcPath))

FT_rmDir(st, pcPath) ==
    LET Removed(fr) ==
            [status |-> SUCCESS, hang |-> fr.hang,
             st |-> [st EXCEPT !.heap = fr.heap,
                               !.count = st.count - fr.count,
                               !.root = IF st.count - fr.count = 0 THEN NULL
                                        ELSE st.root]]
        Found(fn) ==
            IF fn.status # SUCCESS
            THEN [status |-> fn.status, st |-> st, hang |-> FALSE]
            ELSE IF NodeFT_isFile(st.heap, fn.node)
            THEN [status |-> NOT_A_DIRECTORY, st |-> st, hang |-> FALSE]
            ELSE Removed(NodeFT_free(st.heap, fn.node))
    IN  Found(FT_findNode(st, pcPath))

\* FT_rmFile without the test that the node is a file
FT_rmFile_NoKindTest(st, pcPath) ==
    LET Removed(fr) ==
            [status |-> SUCCESS, hang |-> fr.hang,
             st |-> [st EXCEPT !.heap = fr.heap,
                               !.count = st.count - fr.count,
                               !.root = IF st.count - fr.count = 0 THEN NULL
                                        ELSE st.root]]
        Found(fn) ==
            IF fn.status # SUCCESS
            THEN [status |-> fn.status, st |-> st, hang |-> FALSE]
            ELSE Removed(NodeFT_free(st.heap, fn.node))
    IN  Found(FT_findNode(st, pcPath))

FT_rmFile(st, pcPath) ==
    LET Removed(fr) ==
            [status |-> SUCCESS, hang |-> fr.hang,
             st |-> [st EXCEPT !.heap = fr.heap,
                               !.count = st.count - fr.count,
                               !.root = IF st.count - fr.count = 0 THEN NULL
                                        ELSE st.root]]
        Found(fn) ==
            IF fn.status # SUCCESS
            THEN [status |-> fn.status, st |-> st, hang |-> FALSE]
            ELSE IF ~NodeFT_isFile(st.heap, fn.node)
            THEN [status |-> NOT_A_FILE, st |-> st, hang |-> FALSE]
            ELSE Removed(NodeFT_free(st.heap, fn.node))
    IN  Found(FT_findNode(st, pcPath))

FT_containsDir(st, pcPath) ==
    LET Found(fn) == IF fn.status # SUCCESS THEN FALSE
                     ELSE ~NodeFT_isFile(st.heap, fn.node)
    IN  Found(FT_findNode(st, pcPath))

FT_containsFile(st, pcPath) ==
    LET Found(fn) == IF fn.status # SUCCESS THEN FALSE
                     ELSE NodeFT_isFile(st.heap, fn.node)
    IN  Found(FT_findNode(st, pcPath))

\* the buffer of the node itself, or NULL
FT_getFileContents(st, pcPath) ==
    LET Found(fn) == IF fn.status # SUCCESS THEN NullBuf
                     ELSE IF ~NodeFT_isFile(st.heap, fn.node) THEN NullBuf
                     ELSE NodeFT_getContents(st.heap, fn.node)
    IN  Found(FT_findNode(st, pcPath))

\* FT_replaceFileContents that returns the new contents, not the copy of
\* the old ones
FT_replaceFileContents_ReturnsNew(st, pcPath, pvNewContents, ulNewLength, fault) ==
    LET Set(pvOldContentsCopy, sc) ==
            IF sc.status # SUCCESS
            THEN [ptr |-> NullBuf, st |-> [st EXCEPT !.heap = sc.heap]]
            ELSE [ptr |-> pvNewContents,
                  st |-> [st EXCEPT !.heap = sc.heap]]
        Copy(oNNode, pvOldContents, ulOldLength) ==
            IF ~pvOldContents.null /\ ulOldLength > 0
            THEN IF fault.at = "oldcopy" THEN [ptr |-> NullBuf, st |-> st]
                 ELSE Set(Buf(SubSeq(pvOldContents.bytes, 1, ulOldLength)),
                          NodeFT_setContents(st.heap, oNNode, pvNewContents,
                                             ulNewLength, fault.at = "contents"))
            ELSE Set(NullBuf,
                     NodeFT_setContents(st.heap, oNNode, pvNewContents,
                                        ulNewLength, fault.at = "contents"))
        Found(fn) ==
            IF fn.status # SUCCESS THEN [ptr |-> NullBuf, st |-> st]
            ELSE IF ~NodeFT_isFile(st.heap, fn.node)
            THEN [ptr |-> NullBuf, st |-> st]
            ELSE Copy(fn.node, NodeFT_getContents(st.heap, fn.node),
                      NodeFT_getContentLength(st.heap, fn.node))
    IN  Found(FT_findNode(st, pcPath))

\* fault.at is "oldcopy" when the malloc of the copy of the old contents
\* fails, "contents" when the copy of the new contents fails
FT_replaceFileContents(st, pcPath, pvNewContents, ulNewLength, fault) ==
    LET Set(pvOldContentsCopy, sc) ==
            IF sc.status # SUCCESS
            THEN [ptr |-> NullBuf, st |-> [st EXCEPT !.heap = sc.heap]]
            ELSE [ptr |-> pvOldContentsCopy,
                  st |-> [st EXCEPT !.heap = sc.heap]]
        Copy(oNNode, pvOldContents, ulOldLength) ==
            IF ~pvOldContents.null /\ ulOldLength > 0
            THEN IF fault.at = "oldcopy" THEN [ptr |-> NullBuf, st |-> st]
                 ELSE Set(Buf(SubSeq(pvOldContents.bytes, 1, ulOldLength)),
                          NodeFT_setContents(st.heap, oNNode, pvNewContents,
                                             ulNewLength, fault.at = "contents"))
            ELSE Set(NullBuf,
                     NodeFT_setContents(st.heap, oNNode, pvNewContents,
                                        ulNewLength, fault.at = "contents"))
        Found(fn) ==
            IF fn.status # SUCCESS THEN [ptr |-> NullBuf, st |-> st]
            ELSE IF ~NodeFT_isFile(st.heap, fn.node)
            THEN [ptr |-> NullBuf, st |-> st]
            ELSE Copy(fn.node, NodeFT_getContents(st.heap, fn.node),
                      NodeFT_getContentLength(st.heap, fn.node))
    IN  Found(FT_findNode(st, pcPath))

\* FT_stat that stores the content length for a directory too
FT_stat_SizeOfDirectory(st, pcPath, bIsFile0, ulSize0) ==
    LET Found(fn) ==
            IF fn.status # SUCCESS
            THEN [status |-> fn.status, isFile |-> bIsFile0, size |-> ulSize0]
            ELSE IF NodeFT_isFile(st.heap, fn.node)
            THEN [status |-> SUCCESS, isFile |-> TRUE,
                  size |-> NodeFT_getContentLength(st.heap, fn.node)]
            ELSE [status |-> SUCCESS, isFile |-> FALSE,
                  size |-> NodeFT_getContentLength(st.heap, fn.node)]
    IN  IF ~st.init
        THEN [status |-> INITIALIZATION_ERROR, isFile |-> bIsFile0,
              size |-> ulSize0]
        ELSE Found(FT_findNode(st, pcPath))

\* bIsFile0 and ulSize0 are what *pbIsFile and *pulSize hold at the call
FT_stat(st, pcPath, bIsFile0, ulSize0) ==
    LET Found(fn) ==
            IF fn.status # SUCCESS
            THEN [status |-> fn.status, isFile |-> bIsFile0, size |-> ulSize0]
            ELSE IF NodeFT_isFile(st.heap, fn.node)
            THEN [status |-> SUCCESS, isFile |-> TRUE,
                  size |-> NodeFT_getContentLength(st.heap, fn.node)]
            ELSE [status |-> SUCCESS, isFile |-> FALSE, size |-> ulSize0]
    IN  IF ~st.init
        THEN [status |-> INITIALIZATION_ERROR, isFile |-> bIsFile0,
              size |-> ulSize0]
        ELSE Found(FT_findNode(st, pcPath))

RECURSIVE ConcatLines(_, _)
\* the strcat loop of FT_toString: each node's string and a newline
ConcatLines(h, nodes) ==
    IF nodes = <<>> THEN <<>>
    ELSE NodeFT_toString(h, Head(nodes)) \o <<"\n">>
         \o ConcatLines(h, Tail(nodes))

\* the array FT_toString fills has ulCount slots: overrun is TRUE when the
\* traversal writes past them or the loops read a slot it never wrote;
\* fault.at is "array" or "string" when that allocation fails
FT_toString(st, fault) ==
    LET Dump(nodes) ==
            IF Len(nodes) # st.count
            THEN [null |-> FALSE, overrun |-> TRUE,
                  str |-> ConcatLines(st.heap,
                             SubSeq(nodes, 1, IF st.count < Len(nodes)
                                              THEN st.count ELSE Len(nodes)))]
            ELSE IF fault.at = "string"
            THEN [null |-> TRUE, str |-> <<>>, overrun |-> FALSE]
            ELSE [null |-> FALSE, overrun |-> FALSE,
                  str |-> ConcatLines(st.heap, nodes)]
    IN  IF ~st.init THEN [null |-> TRUE, str |-> <<>>, overrun |-> FALSE]
        ELSE IF fault.at = "array" \/ st.count < 0
        THEN [null |-> TRUE, str |-> <<>>, overrun |-> FALSE]
        ELSE Dump(FT_preOrderTraversal(st.heap, st.root))

(* ---- checkerFT.c ---- *)

CheckerFT_Node_isValid(h, node) ==
    IF node = NULL THEN FALSE
    ELSE IF NodeFT_getParent(h, node) # NULL
    THEN Path_getSharedPrefixDepth(NodeFT_getPath(h, node),
                                   NodeFT_getPath(h, NodeFT_getParent(h, node)))
         = Path_getDepth(NodeFT_getPath(h, NodeFT_getParent(h, node)))
    ELSE TRUE

\* no child of either array is followed by a child of a smaller path
CheckerFT_childrenAreOrdered(h, parentNode) ==
    /\ \A i \in 1..(NodeFT_getNumChildren(h, parentNode, FALSE) - 1) :
          Path_comparePath(h[h[parentNode].dirChildren[i]].path,
                           h[h[parentNode].dirChildren[i + 1]].path) <= 0
    /\ \A i \in 1..(NodeFT_getNumChildren(h, parentNode, TRUE) - 1) :
          Path_comparePath(h[h[parentNode].fileChildren[i]].path,
                           h[h[parentNode].fileChildren[i + 1]].path) <= 0

CheckerFT_noDuplicatePaths(h, node, seenNodes) ==
    \A i \in 1..Len(seenNodes) :
        Path_comparePath(NodeFT_getPath(h, node),
                         NodeFT_getPath(h, seenNodes[i])) # 0

RECURSIVE CheckerFT_validateTree(_, _, _)
RECURSIVE ValidateChildrenFrom(_, _, _, _, _)
\* the loop of CheckerFT_validateChildren over one array, from C index i
ValidateChildrenFrom(h, node, isFile, i, seenNodes) ==
    IF i >= NodeFT_getNumChildren(h, node, isFile)
    THEN [ok |-> TRUE, seen |-> seenNodes]
    ELSE LET Walked(r) ==
                 IF ~r.ok THEN r
                 ELSE ValidateChildrenFrom(h, node, isFile, i + 1, r.seen)
             Child(c) ==
                 IF c.status # SUCCESS \/ c.node = NULL
                 THEN [ok |-> FALSE, seen |-> seenNodes]
                 ELSE Walked(CheckerFT_validateTree(h, c.node, seenNodes))
         IN  Child(NodeFT_getChild(h, node, i, isFile))

\* directory children first, then file children
CheckerFT_validateChildren(h, node, seenNodes) ==
    LET Dirs(d) == IF ~d.ok THEN d
                   ELSE ValidateChildrenFrom(h, node, TRUE, 0, d.seen)
    IN  Dirs(ValidateChildrenFrom(h, node, FALSE, 0, seenNodes))

CheckerFT_validateTree(h, node, seenNodes) ==
    IF node = NULL THEN [ok |-> TRUE, seen |-> seenNodes]
    ELSE IF ~CheckerFT_Node_isValid(h, node)
    THEN [ok |-> FALSE, seen |-> seenNodes]
    ELSE IF ~CheckerFT_noDuplicatePaths(h, node, seenNodes)
    THEN [ok |-> FALSE, seen |-> seenNodes]
    ELSE IF NodeFT_isFile(h, node)
    THEN [ok |-> TRUE, seen |-> Append(seenNodes, node)]
    ELSE IF ~CheckerFT_childrenAreOrdered(h, node)
    THEN [ok |-> FALSE, seen |-> Append(seenNodes, node)]
    ELSE CheckerFT_validateChildren(h, node, Append(seenNodes, node))

\* fault is "array" when DynArray_new of the seen nodes fails, "add" when
\* the first DynArray_add to them does, anything else when neither does
CheckerFT_isValid(h, isInitialized, root, count, fault) ==
    LET Walked(r) == r.ok /\ Len(r.seen) = count
    IN  IF ~isInitialized THEN root = NULL /\ count = 0
        ELSE IF fault = "array" THEN FALSE
        ELSE IF fault = "add" /\ root # NULL
                /\ CheckerFT_Node_isValid(h, root)
        THEN FALSE
        ELSE Walked(CheckerFT_validateTree(h, root, <<>>))

(* ---- the client: inputs and calls ---- *)

\* the segments the client builds its paths of
Segs == {<<"a">>, <<"b">>}

\* every path below the root a, and the other root b
Paths == {p \in UNION {[1..d -> Segs] : d \in 1..MaxDepth} :
             p[1] = <<"a">> \/ Len(p) = 1}

\* strings that are no path: empty, a lone, leading, trailing or double '/'
BadStrings == {<<>>, <<"a", "/", "/", "b">>}

PathStrings == {Join(p) : p \in Paths} \cup BadStrings

\* the (buffer, length) pairs the client passes as file contents
ContentInputs == {<<NullBuf, 0>>, <<Buf(<<1>>), 0>>, <<Buf(<<1>>), 1>>,
                  <<Buf(<<2, 3>>), 1>>}

\* what the client's size variable holds before a call of FT_stat
StatSize0 == 7

InsertDirFaults ==
    {NoFault} \cup [k : 1..MaxDepth, at : {"node", "link"}]

InsertFileFaults ==
    {NoFault} \cup [k : 1..MaxDepth, at : {"node", "link", "contents"}]

ReplaceFaults == {NoFault} \cup [k : {1}, at : {"oldcopy", "contents"}]

ToStringFaults == {NoFault} \cup [k : {1}, at : {"array", "string"}]

MkOp(name, path, contents, length, isFile0) ==
    [name |-> name, path |-> path, contents |-> contents, length |-> length,
     isFile0 |-> isFile0]

\* a returned status
ResStatus(status) ==
    [status |-> status, bool |-> FALSE, ptr |-> NullBuf, null |-> TRUE,
     str |-> <<>>, isFile |-> FALSE, size |-> 0]

ResBool(b) == [ResStatus("NONE") EXCEPT !.bool = b]

ResPtr(ptr) == [ResStatus("NONE") EXCEPT !.ptr = ptr, !.null = ptr.null]

EmptyHeap == [a \in {} |-> NULL]

Idle == MkOp("idle", <<>>, NullBuf, 0, FALSE)

\* the client is between two calls
Ready == ~halted /\ op = Idle

Init ==
    /\ bIsInitialized = FALSE
    /\ oNRoot = NULL
    /\ ulCount = 0
    /\ heap = EmptyHeap
    /\ op = Idle
    /\ result = ResStatus("NONE")
    /\ halted = FALSE
    /\ faults = 0

\* the statics and the heap after a call that returned st, or that hangs
SetState(st, hang) ==
    /\ bIsInitialized' = st.init
    /\ oNRoot' = st.root
    /\ ulCount' = st.count
    /\ heap' = Sweep(st.heap, st.root)
    /\ halted' = hang

CallInit ==
    /\ Ready
    /\ LET Returns(r) ==
               /\ SetState(r.st, FALSE)
               /\ op' = MkOp("init", <<>>, NullBuf, 0, FALSE)
               /\ result' = ResStatus(r.status)
       IN  Returns(FT_init(State))
    /\ UNCHANGED faults

CallDestroy ==
    /\ Ready
    /\ LET Returns(r) ==
               /\ r.st.count >= -MaxWrap
               /\ SetState(r.st, r.hang)
               /\ op' = MkOp("destroy", <<>>, NullBuf, 0, FALSE)
               /\ result' = ResStatus(r.status)
       IN  Returns(FT_destroy(State))
    /\ UNCHANGED faults

CallInsertDir ==
    /\ Ready
    /\ \E s \in PathStrings, fault \in InsertDirFaults :
          LET Returns(r) ==
                  /\ fault # NoFault => faults < MaxFaults
                  /\ Cardinality(Reachable(r.st.heap, r.st.root)) <= MaxNodes
                  /\ SetState(r.st, r.hang)
                  /\ op' = MkOp("insert_dir", s, NullBuf, 0, FALSE)
                  /\ result' = ResStatus(r.status)
                  /\ faults' = IF r.status = MEMORY_ERROR THEN faults + 1
                               ELSE faults
          IN  Returns(FT_insertDir(State, s, fault))

CallInsertFile ==
    /\ Ready
    /\ \E s \in PathStrings, c \in ContentInputs, fault \in InsertFileFaults :
          LET Returns(r) ==
                  /\ fault # NoFault => faults < MaxFaults
                  /\ Cardinality(Reachable(r.st.heap, r.st.root)) <= MaxNodes
                  /\ SetState(r.st, r.hang)
                  /\ op' = MkOp("insert_file", s, c[1], c[2], FALSE)
                  /\ result' = ResStatus(r.status)
                  /\ faults' = IF r.status = MEMORY_ERROR THEN faults + 1
                               ELSE faults
          IN  Returns(FT_insertFile(State, s, c[1], c[2], fault))

CallRmDir ==
    /\ Ready
    /\ \E s \in PathStrings :
          LET Returns(r) ==
                  /\ r.st.count >= -MaxWrap
                  /\ SetState(r.st, r.hang)
                  /\ op' = MkOp("rm_dir", s, NullBuf, 0, FALSE)
                  /\ result' = ResStatus(r.status)
          IN  Returns(FT_rmDir(State, s))
    /\ UNCHANGED faults

CallRmFile ==
    /\ Ready
    /\ \E s \in PathStrings :
          LET Returns(r) ==
                  /\ r.st.count >= -MaxWrap
                  /\ SetState(r.st, r.hang)
                  /\ op' = MkOp("rm_file", s, NullBuf, 0, FALSE)
                  /\ result' = ResStatus(r.status)
          IN  Returns(FT_rmFile(State, s))
    /\ UNCHANGED faults

CallContainsDir ==
    /\ Ready
    /\ \E s \in PathStrings :
          /\ op' = MkOp("contains_dir", s, NullBuf, 0, FALSE)
          /\ result' = ResBool(FT_containsDir(State, s))
    /\ UNCHANGED <<bIsInitialized, oNRoot, ulCount, heap, halted, faults>>

CallContainsFile ==
    /\ Ready
    /\ \E s \in PathStrings :
          /\ op' = MkOp("contains_file", s, NullBuf, 0, FALSE)
          /\ result' = ResBool(FT_containsFile(State, s))
    /\ UNCHANGED <<bIsInitialized, oNRoot, ulCount, heap, halted, faults>>

CallGetFileContents ==
    /\ Ready
    /\ \E s \in PathStrings :
          /\ op' = MkOp("get_file_contents", s, NullBuf, 0, FALSE)
          /\ result' = ResPtr(FT_getFileContents(State, s))
    /\ UNCHANGED <<bIsInitialized, oNRoot, ulCount, heap, halted, faults>>

CallReplaceFileContents ==
    /\ Ready
    /\ \E s \in PathStrings, c \in ContentInputs, fault \in ReplaceFaults :
          LET Returns(r, unfaulted) ==
                  /\ fault # NoFault => faults < MaxFaults
                  /\ SetState(r.st, FALSE)
                  /\ op' = MkOp("replace_file_contents", s, c[1], c[2], FALSE)
                  /\ result' = ResPtr(r.ptr)
                  /\ faults' = IF fault # NoFault /\ r.ptr.null /\ unfaulted # r
                               THEN faults + 1 ELSE faults
          IN  Returns(FT_replaceFileContents(State, s, c[1], c[2], fault),
                      FT_replaceFileContents(State, s, c[1], c[2], NoFault))

CallStat ==
    /\ Ready
    /\ \E s \in PathStrings, bIsFile0 \in BOOLEAN :
          LET Returns(r) ==
                  /\ op' = MkOp("stat", s, NullBuf, 0, bIsFile0)
                  /\ result' = [ResStatus(r.status) EXCEPT !.isFile = r.isFile,
                                                           !.size = r.size]
          IN  Returns(FT_stat(State, s, bIsFile0, StatSize0))
    /\ UNCHANGED <<bIsInitialized, oNRoot, ulCount, heap, halted, faults>>

\* when the array is overrun the call aborts on the assertion of DynArray,
\* or with assertions off returns what the ulCount slots give
CallToString ==
    /\ Ready
    /\ \E fault \in ToStringFaults, aborts \in BOOLEAN :
          LET Returns(r) ==
                  /\ fault # NoFault => faults < MaxFaults
                  /\ aborts => r.overrun
                  /\ halted' = aborts
                  /\ op' = MkOp("to_string", <<>>, NullBuf, 0, FALSE)
                  /\ result' = [ResStatus("NONE") EXCEPT !.null = r.null,
                                                         !.str = r.str]
                  /\ faults' = IF fault # NoFault /\ bIsInitialized /\ r.null
                               THEN faults + 1 ELSE faults
          IN  Returns(FT_toString(State, fault))
    /\ UNCHANGED <<bIsInitialized, oNRoot, ulCount, heap>>

\* oNRoot points to a freed block: a call that reads it may fault there
\* instead of reading the bytes the block still holds
FaultOnFreedRoot ==
    /\ Ready
    /\ bIsInitialized
    /\ oNRoot # NULL
    /\ heap[oNRoot].freed
    /\ halted' = TRUE
    /\ op' = MkOp("fault", <<>>, NullBuf, 0, FALSE)
    /\ result' = ResStatus("NONE")
    /\ UNCHANGED <<bIsInitialized, oNRoot, ulCount, heap, faults>>

\* the client takes the result and turns to its next call
Return ==
    /\ ~halted
    /\ op # Idle
    /\ op' = Idle
    /\ result' = ResStatus("NONE")
    /\ UNCHANGED <<bIsInitialized, oNRoot, ulCount, heap, halted, faults>>

Next ==
    \/ CallInit
    \/ CallDestroy
    \/ CallInsertDir
    \/ CallInsertFile
    \/ CallRmDir
    \/ CallRmFile
    \/ CallContainsDir
    \/ CallContainsFile
    \/ CallGetFileContents
    \/ CallReplaceFileContents
    \/ CallStat
    \/ CallToString
    \/ FaultOnFreedRoot
    \/ Return

Spec == Init /\ [][Next]_vars

(* ---- properties of the tree ---- *)

\* the calls that change the tree, and the two that build it
Mutators == {"init", "destroy", "insert_dir", "insert_file", "rm_dir",
             "rm_file", "replace_file_contents"}

Inserts == {"insert_dir", "insert_file"}

\* the number of nodes a walk from the root reaches
NumReachable == Cardinality(Reachable(heap, oNRoot))

\* C1: in every reachable state ulCount is the number of nodes reachable
\* from the root, and 0 when the root is null
C1_CountIsReachable ==
    /\ ulCount = NumReachable
    /\ oNRoot = NULL => ulCount = 0

\* the paths of a child array are strictly increasing
StrictlyIncreasing(arr) ==
    \A i \in 1..(Len(arr) - 1) :
        Path_comparePath(heap[arr[i]].path, heap[arr[i + 1]].path) < 0

\* C2: in every reachable state both child sequences of every directory are
\* strictly increasing by path, so no two siblings of a sequence share one
C2_ChildrenSorted ==
    \A n \in DOMAIN heap :
        /\ StrictlyIncreasing(heap[n].fileChildren)
        /\ StrictlyIncreasing(heap[n].dirChildren)

\* the node just inserted went in front of a sibling that was there before
C2_Witness ==
    /\ op.name \in Inserts
    /\ result.status = SUCCESS
    /\ \E n \in DOMAIN heap :
          \E arr \in {heap[n].dirChildren, heap[n].fileChildren} :
             /\ Len(arr) >= 2
             /\ heap[arr[1]].path = Path_new(op.path).path

\* C3: in every reachable state each node but the root has a parent whose
\* path is the prefix of its own path that is one segment shorter, and the
\* root is the one node with a null parent, its path of depth 1
C3_ParentPathContract ==
    /\ \A n \in DOMAIN heap :
          n # oNRoot =>
             /\ heap[n].parent # NULL
             /\ heap[n].parent \in DOMAIN heap
             /\ Path_getSharedPrefixDepth(heap[n].path, heap[heap[n].parent].path)
                   = Path_getDepth(heap[heap[n].parent].path)
             /\ Path_getDepth(heap[n].path)
                   = Path_getDepth(heap[heap[n].parent].path) + 1
    /\ oNRoot # NULL =>
          /\ {n \in DOMAIN heap : heap[n].parent = NULL} = {oNRoot}
          /\ Path_getDepth(heap[oNRoot].path) = 1

\* a chain of three nodes below one another has been built
C3_Witness ==
    /\ op.name \in Inserts
    /\ result.status = SUCCESS
    /\ \E n \in DOMAIN heap :
          /\ Path_getDepth(heap[n].path) = 3
          /\ heap[heap[n].parent].parent = oNRoot

\* C4: in every reachable state no file has a child and no node has a file
\* for its parent
C4_FilesAreLeaves ==
    \A n \in DOMAIN heap :
        /\ heap[n].isFile =>
              heap[n].fileChildren = <<>> /\ heap[n].dirChildren = <<>>
        /\ heap[n].parent # NULL => ~heap[heap[n].parent].isFile

\* an insertion below an existing file has been turned down
C4_Witness ==
    /\ op.name \in Inserts
    /\ result.status = NOT_A_DIRECTORY
    /\ \E n \in DOMAIN heap :
          /\ heap[n].isFile
          /\ Path_getSharedPrefixDepth(Path_new(op.path).path, heap[n].path)
                = Path_getDepth(heap[n].path)

\* C5: after every mutation that succeeded (a status call returning
\* SUCCESS, a replacement returning the old contents) CheckerFT_isValid
\* holds of (bIsInitialized, oNRoot, ulCount)
C5_CheckerAfterSuccess ==
    (/\ op.name \in Mutators
     /\ \/ result.status = SUCCESS
        \/ op.name = "replace_file_contents" /\ ~result.null)
    => CheckerFT_isValid(heap, bIsInitialized, oNRoot, ulCount, "none")

\* C6: an insert_dir or insert_file that returns another status than
\* SUCCESS leaves root, count and nodes as they were before the call
C6_FailedInsertChangesNothing ==
    [][(op'.name \in Inserts /\ result'.status # SUCCESS) => State' = State]_vars

\* what a call made while the tree is uninitialized has to return
RejectedUninitialized(o, r) ==
    CASE o.name \in {"destroy", "insert_dir", "insert_file", "rm_dir",
                     "rm_file", "stat"} -> r.status = INITIALIZATION_ERROR
      [] o.name \in {"contains_dir", "contains_file"} -> r.bool = FALSE
      [] o.name \in {"get_file_contents", "replace_file_contents",
                     "to_string"} -> r.null
      [] OTHER -> FALSE

\* C7: init succeeds exactly when uninitialized and gives an initialized
\* empty tree; destroy succeeds exactly when initialized and gives an
\* uninitialized facade with a null root and a count of 0; the failing call
\* returns INITIALIZATION_ERROR and changes nothing
C7_InitDestroyMachine ==
    [][/\ op'.name = "init" =>
             IF bIsInitialized
             THEN result'.status = INITIALIZATION_ERROR /\ State' = State
             ELSE /\ result'.status = SUCCESS
                  /\ bIsInitialized' /\ oNRoot' = NULL /\ ulCount' = 0
                  /\ heap' = EmptyHeap
       /\ op'.name = "destroy" =>
             IF bIsInitialized
             THEN /\ result'.status = SUCCESS
                  /\ ~bIsInitialized' /\ oNRoot' = NULL /\ ulCount' = 0
                  /\ heap' = EmptyHeap
             ELSE result'.status = INITIALIZATION_ERROR /\ State' = State]_vars

\* C8: while the tree is uninitialized every call but init leaves the state
\* as it is and fails: INITIALIZATION_ERROR from the calls that return a
\* status, FALSE from contains_dir and contains_file, NULL from the rest
C8_UninitializedRejects ==
    [][(~bIsInitialized /\ op'.name \notin {"init", "idle"})
          => State' = State /\ RejectedUninitialized(op', result')]_vars

\* a removal with a well-formed path was turned down while uninitialized
C8_Witness ==
    /\ ~bIsInitialized
    /\ op.name = "rm_dir"
    /\ Path_new(op.path).status = SUCCESS
    /\ result.status = INITIALIZATION_ERROR

\* the prefixes of a path as strings, the path itself included
PrefixStrings(p) == {Path_getPathname(SubSeq(p, 1, d)) : d \in 1..Len(p)}

\* C9: straight after an insert_dir(p) that returned SUCCESS, contains_dir
\* is TRUE of p and of every proper prefix of p, and contains_file(p) is
\* FALSE
C9_InsertedDirIsContained ==
    (op.name = "insert_dir" /\ result.status = SUCCESS)
    => /\ \A s \in PrefixStrings(Path_new(op.path).path) :
             FT_containsDir(State, s)
       /\ ~FT_containsFile(State, op.path)

\* a directory two levels below the root has been inserted
C9_Witness ==
    /\ op.name = "insert_dir"
    /\ result.status = SUCCESS
    /\ Path_getDepth(Path_new(op.path).path) = 3
    /\ FT_containsDir(State, op.path)

\* C10: straight after an insert_dir(p) that returned SUCCESS, a second
\* insert_dir(p) returns ALREADY_IN_TREE and leaves root, count, nodes and
\* the dump as they are
C10_SecondInsertRejected ==
    (op.name = "insert_dir" /\ result.status = SUCCESS)
    => \A fault \in InsertDirFaults :
          LET r == FT_insertDir(State, op.path, fault)
          IN  /\ r.status = ALREADY_IN_TREE
              /\ r.st = State
              /\ FT_toString(r.st, NoFault) = FT_toString(State, NoFault)

\* a directory was inserted next to others, and inserting it again fails
C10_Witness ==
    /\ op.name = "insert_dir"
    /\ result.status = SUCCESS
    /\ NumReachable = MaxNodes
    /\ FT_insertDir(State, op.path, NoFault).status = ALREADY_IN_TREE

\* the nodes of the tree: the blocks of the heap that are in use
Nodes(h) == {n \in DOMAIN h : ~h[n].freed}

\* the nodes of the tree whose path is p, of either kind
NodesAt(h, p) == {n \in Nodes(h) : h[n].path = p}

\* every segment of a is the segment of b at the same depth
IsPrefix(a, b) == Len(a) <= Len(b) /\ SubSeq(b, 1, Len(a)) = a

IsProperPrefix(a, b) == Len(a) < Len(b) /\ IsPrefix(a, b)

\* the string s is a well-formed path
WellFormed(s) == Path_new(s).status = SUCCESS

\* the segments of the well-formed string s
PathOf(s) == Path_new(s).path

\* C11: insert_dir(p) or insert_file(p) on an initialized tree returns
\* ALREADY_IN_TREE when a node of path exactly p exists, of either kind,
\* and returns NOT_A_DIRECTORY only when a proper prefix of p is a file
\* (insert_file of a path of depth 1 is the case of C13)
C11_ExactMatchIsAlreadyInTree ==
    [][(/\ op'.name \in Inserts
        /\ bIsInitialized
        /\ WellFormed(op'.path)
        /\ ~(op'.name = "insert_file" /\ Len(PathOf(op'.path)) = 1))
       => /\ NodesAt(heap, PathOf(op'.path)) # {}
                => result'.status = ALREADY_IN_TREE
          /\ result'.status = NOT_A_DIRECTORY
                => \E n \in Nodes(heap) :
                      /\ heap[n].isFile
                      /\ IsProperPrefix(heap[n].path,
                                        PathOf(op'.path))]_vars

\* C12: insert_dir(p) or insert_file(p) when a proper prefix of p exists as
\* a file returns NOT_A_DIRECTORY and leaves the tree unchanged
C12_InsertBelowFile ==
    [][(/\ op'.name \in Inserts
        /\ WellFormed(op'.path)
        /\ \E n \in Nodes(heap) :
              /\ heap[n].isFile
              /\ IsProperPrefix(heap[n].path, PathOf(op'.path)))
       => /\ result'.status = NOT_A_DIRECTORY
          /\ State' = State]_vars

\* a directory of depth 3 has just been refused below a file of depth 2
C12_Witness ==
    /\ op.name = "insert_dir"
    /\ result.status = NOT_A_DIRECTORY
    /\ WellFormed(op.path)
    /\ Len(PathOf(op.path)) = 3
    /\ \E n \in Nodes(heap) :
          /\ heap[n].isFile
          /\ heap[n].path = SubSeq(PathOf(op.path), 1, 2)

\* C13: insert_file(p) with a well-formed p of depth 1 on an initialized
\* tree returns CONFLICTING_PATH and changes nothing, so the root of the
\* tree is never a file
C13_FileIsNeverRoot ==
    [][/\ (/\ op'.name = "insert_file"
           /\ bIsInitialized
           /\ WellFormed(op'.path)
           /\ Len(PathOf(op'.path)) = 1)
          => /\ result'.status = CONFLICTING_PATH
             /\ State' = State
       /\ oNRoot' # NULL => ~heap'[oNRoot'].isFile]_vars

\* a file named as the root of a tree that has that root has been refused
C13_Witness ==
    /\ op.name = "insert_file"
    /\ result.status = CONFLICTING_PATH
    /\ oNRoot # NULL
    /\ WellFormed(op.path)
    /\ PathOf(op.path) = heap[oNRoot].path

\* C14: insert_file(p) with a well-formed p of depth 2 or more on an
\* initialized empty tree, when no allocation fails, returns SUCCESS and
\* makes the first segment of p the root directory; CONFLICTING_PATH for a
\* null deepest ancestor is returned only when the root is non-null
C14_InsertFileIntoEmptyTree ==
    [][(/\ op'.name = "insert_file"
        /\ bIsInitialized
        /\ oNRoot = NULL
        /\ WellFormed(op'.path)
        /\ Len(PathOf(op'.path)) >= 2
        /\ faults' = faults)
       => /\ result'.status = SUCCESS
          /\ oNRoot' # NULL
          /\ heap'[oNRoot'].path = SubSeq(PathOf(op'.path), 1, 1)
          /\ ~heap'[oNRoot'].isFile
          /\ NodesAt(heap', PathOf(op'.path)) # {}]_vars

\* C15: when the root exists and its path is not the first segment of the
\* well-formed path p, insert_dir, insert_file, rm_dir, rm_file and stat
\* return CONFLICTING_PATH and leave the tree unchanged, and contains_dir
\* and contains_file return FALSE
C15_OtherRootConflicts ==
    [][(/\ bIsInitialized
        /\ oNRoot # NULL
        /\ WellFormed(op'.path)
        /\ heap[oNRoot].path # SubSeq(PathOf(op'.path), 1, 1))
       => /\ op'.name \in {"insert_dir", "insert_file", "rm_dir", "rm_file",
                           "stat"}
             => /\ result'.status = CONFLICTING_PATH
                /\ State' = State
          /\ op'.name \in {"contains_dir", "contains_file"}
             => /\ ~result'.bool
                /\ State' = State]_vars

\* a removal below another root has just been refused
C15_Witness ==
    /\ op.name = "rm_dir"
    /\ result.status = CONFLICTING_PATH
    /\ oNRoot # NULL
    /\ WellFormed(op.path)
    /\ heap[oNRoot].path # SubSeq(PathOf(op.path), 1, 1)

\* C16: rm_file(p) on an existing directory returns NOT_A_FILE and
\* rm_dir(p) on an existing file returns NOT_A_DIRECTORY, and neither
\* changes the tree
C16_RemoveOfOtherKind ==
    [][/\ (/\ op'.name = "rm_file"
           /\ WellFormed(op'.path)
           /\ \E n \in NodesAt(heap, PathOf(op'.path)) : ~heap[n].isFile)
          => /\ result'.status = NOT_A_FILE
             /\ State' = State
       /\ (/\ op'.name = "rm_dir"
           /\ WellFormed(op'.path)
           /\ \E n \in NodesAt(heap, PathOf(op'.path)) : heap[n].isFile)
          => /\ result'.status = NOT_A_DIRECTORY
             /\ State' = State]_vars

\* rm_file has just been refused on a directory that has a child
C16_Witness ==
    /\ op.name = "rm_file"
    /\ result.status = NOT_A_FILE
    /\ WellFormed(op.path)
    /\ \E n \in NodesAt(heap, PathOf(op.path)) :
          /\ ~heap[n].isFile
          /\ Len(heap[n].dirChildren) + Len(heap[n].fileChildren) > 0

\* rm is what a removal returned: it succeeded and the statics and the
\* nodes are those of st again, and so is the dump
Restores(rm, st) ==
    /\ rm.status = SUCCESS
    /\ ~rm.hang
    /\ [rm.st EXCEPT !.heap = Sweep(rm.st.heap, rm.st.root)] = st
    /\ FT_toString([rm.st EXCEPT !.heap = Sweep(rm.st.heap, rm.st.root)],
                   NoFault) = FT_toString(st, NoFault)

\* C17: after every insert_dir(p) that returns SUCCESS, rm_dir(p)
\* returns SUCCESS and restores the state before the insert, the node count
\* and the dump included
C17_InsertThenRemoveRestores ==
    [][(op'.name = "insert_dir" /\ result'.status = SUCCESS)
       => Restores(FT_rmDir(State', op'.path), State)]_vars

\* the same for the inserts that have created the node of p alone, which
\* leaves out the directories an insert creates above p and rm_dir(p)
\* leaves in place
InsertOfOneNodeThenRemoveRestores ==
    [][(/\ op'.name = "insert_dir"
        /\ result'.status = SUCCESS
        /\ ulCount' = ulCount + 1)
       => Restores(FT_rmDir(State', op'.path), State)]_vars

\* the nodes of the tree at p and below it
NodesUnder(h, p) == {n \in Nodes(h) : IsPrefix(p, h[n].path)}

\* the children of arr that are not in gone, in the order of arr
Without(arr, gone) == SelectSeq(arr, LAMBDA c : c \notin gone)

\* C18: a successful rm_dir(p) or rm_file(p) removes exactly the nodes whose
\* path has p as a segment prefix, subtracts their number from the node
\* count, sets the root to null precisely when the count reaches zero, and
\* leaves every other node, its kind, its contents and the order of the
\* remaining siblings unchanged
C18_RemoveTakesSubtreeOnly ==
    [][(op'.name \in {"rm_dir", "rm_file"} /\ result'.status = SUCCESS)
       => /\ Nodes(heap') = Nodes(heap) \ NodesUnder(heap, PathOf(op'.path))
          /\ ulCount' =
                ulCount - Cardinality(NodesUnder(heap, PathOf(op'.path)))
          /\ ulCount' >= 0
          /\ (oNRoot' = NULL) <=> (ulCount' = 0)
          /\ \A n \in Nodes(heap') :
                heap'[n] =
                   [heap[n] EXCEPT
                      !.dirChildren =
                         Without(@, NodesUnder(heap, PathOf(op'.path))),
                      !.fileChildren =
                         Without(@, NodesUnder(heap, PathOf(op'.path)))]]_vars

\* the first n bytes of the buffer b
FirstBytes(b, n) == SubSeq(b.bytes, 1, n)

\* the files of the tree
Files(h) == {n \in Nodes(h) : h[n].isFile}

\* C19: after insert_file(p, b, n) returns SUCCESS, get_file_contents(p)
\* returns a buffer whose first n bytes are those of b, contains_file(p) is
\* TRUE and stat(p) reports a file of size n; and the contents and the size
\* of a file stay as they are in every call that is neither a replacement
\* of that file nor a removal of it, of a directory above it or of the tree
C19_FileKeepsContents ==
    [][/\ (op'.name = "insert_file" /\ result'.status = SUCCESS)
          => /\ op'.length > 0
                => /\ ~FT_getFileContents(State', op'.path).null
                   /\ FirstBytes(FT_getFileContents(State', op'.path),
                                 op'.length)
                      = FirstBytes(op'.contents, op'.length)
             /\ FT_containsFile(State', op'.path)
             /\ FT_stat(State', op'.path, FALSE, StatSize0)
                = [status |-> SUCCESS, isFile |-> TRUE, size |-> op'.length]
       /\ \A f \in Files(heap) :
             (/\ ~(/\ op'.name = "replace_file_contents"
                   /\ WellFormed(op'.path)
                   /\ PathOf(op'.path) = heap[f].path)
              /\ ~(/\ op'.name \in {"rm_dir", "rm_file"}
                   /\ result'.status = SUCCESS
                   /\ IsPrefix(PathOf(op'.path), heap[f].path))
              /\ ~(op'.name = "destroy" /\ result'.status = SUCCESS))
             => /\ f \in Files(heap')
                /\ heap'[f].contents = heap[f].contents
                /\ heap'[f].contentLength = heap[f].contentLength
                /\ FT_getFileContents(State', Path_getPathname(heap[f].path))
                   = FT_getFileContents(State, Path_getPathname(heap[f].path))
                /\ FT_stat(State', Path_getPathname(heap[f].path), FALSE,
                           StatSize0)
                   = FT_stat(State, Path_getPathname(heap[f].path), FALSE,
                             StatSize0)]_vars

\* what a file holds once NodeFT_setContents has stored n bytes of b
Stored(b, n) == IF b.null \/ n = 0 THEN NullBuf ELSE Buf(FirstBytes(b, n))

\* C20: replace_file_contents(p, new, n) on an existing file, when no
\* allocation of the call fails, returns a copy of the contents the file
\* held before the call, null if it held none, and afterwards
\* get_file_contents(p) is the n bytes of new and stat(p) reports size n; on
\* a directory or a missing path it returns null and changes nothing
C20_ReplaceReturnsOldContents ==
    [][(op'.name = "replace_file_contents" /\ WellFormed(op'.path))
       => /\ \A f \in Files(heap) :
                (heap[f].path = PathOf(op'.path) /\ faults' = faults)
                => /\ result'.ptr = heap[f].contents
                   /\ result'.null = heap[f].contents.null
                   /\ FT_getFileContents(State', op'.path)
                      = Stored(op'.contents, op'.length)
                   /\ FT_stat(State', op'.path, FALSE, StatSize0)
                      = [status |-> SUCCESS, isFile |-> TRUE,
                         size |-> op'.length]
                   /\ heap' = [heap EXCEPT
                                 ![f].contents =
                                    Stored(op'.contents, op'.length),
                                 ![f].contentLength = op'.length]
                   /\ <<bIsInitialized', oNRoot', ulCount'>>
                      = <<bIsInitialized, oNRoot, ulCount>>
          /\ (\A f \in Files(heap) : heap[f].path # PathOf(op'.path))
             => /\ result'.null
                /\ State' = State]_vars

\* a file that held one byte has just been given the first byte of a
\* buffer of two, and the call has returned the byte it held
C20_Witness ==
    /\ op.name = "replace_file_contents"
    /\ ~result.null
    /\ Len(result.ptr.bytes) = 1
    /\ op.length = 1
    /\ Len(op.contents.bytes) = 2
    /\ result.ptr.bytes # FirstBytes(op.contents, 1)
    /\ FT_getFileContents(State, op.path) = Buf(FirstBytes(op.contents, 1))

\* the children of directory d of one kind, by their parent links
ChildrenOf(h, d, isFile) ==
    {n \in Nodes(h) : h[n].parent = d /\ h[n].isFile = isFile}

RECURSIVE Ascending(_, _)
\* the nodes of the set S as a sequence of ascending path
Ascending(h, S) ==
    IF S = {} THEN <<>>
    ELSE LET First(n) == <<n>> \o Ascending(h, S \ {n})
         IN  First(CHOOSE n \in S :
                      \A m \in S : Path_comparePath(h[n].path, h[m].path) <= 0)

RECURSIVE ListedFrom(_, _)
RECURSIVE ListedAll(_, _)
\* the order the dump is to have below and at node n: n, its file children
\* in ascending order, then each directory child in ascending order with
\* its subtree
ListedFrom(h, n) ==
    <<n>> \o Ascending(h, ChildrenOf(h, n, TRUE))
          \o ListedAll(h, Ascending(h, ChildrenOf(h, n, FALSE)))

ListedAll(h, dirs) ==
    IF dirs = <<>> THEN <<>>
    ELSE ListedFrom(h, Head(dirs)) \o ListedAll(h, Tail(dirs))

\* the order the dump is to have for the tree of root r
Listed(h, r) == IF r = NULL THEN <<>> ELSE ListedFrom(h, r)

\* C21: to_string on an initialized tree, when no allocation fails, returns
\* one line for every node of the tree, ulCount lines in all, in pre-order
\* from the root: a directory, then its file children in ascending path
\* order, then its directory children in ascending path order, each with
\* its subtree
C21_DumpIsPreOrder ==
    [][(op'.name = "to_string" /\ bIsInitialized /\ faults' = faults)
       => /\ ~halted'
          /\ ~result'.null
          /\ result'.str = ConcatLines(heap, Listed(heap, oNRoot))
          /\ Len(Listed(heap, oNRoot)) = ulCount
          /\ {Listed(heap, oNRoot)[i] : i \in 1..Len(Listed(heap, oNRoot))}
             = Nodes(heap)]_vars

\* C22: stat(p) returning SUCCESS on a directory sets *pbIsFile to FALSE
\* and leaves *pulSize as the caller had it; on a file it sets *pbIsFile to
\* TRUE and *pulSize to the content length; with any other status both are
\* as the caller had them; the tree is unchanged in every case
C22_StatOutputs ==
    [][op'.name = "stat"
       => /\ State' = State
          /\ result'.status # SUCCESS
             => /\ result'.isFile = op'.isFile0
                /\ result'.size = StatSize0
          /\ result'.status = SUCCESS
             => \E n \in DOMAIN heap :
                   /\ WellFormed(op'.path)
                   /\ heap[n].path = PathOf(op'.path)
                   /\ result'.isFile = heap[n].isFile
                   /\ result'.size = IF heap[n].isFile
                                     THEN heap[n].contentLength
                                     ELSE StatSize0]_vars

\* stat has just found a directory while the caller's flag said file
C22_Witness ==
    /\ op.name = "stat"
    /\ result.status = SUCCESS
    /\ op.isFile0
    /\ ~result.isFile
    /\ result.size = StatSize0
    /\ \E n \in NodesAt(heap, PathOf(op.path)) :
          Len(heap[n].fileChildren) > 0

\* C23: stat(p) on an initialized tree returns NO_SUCH_PATH when p is
\* well-formed, the root, if there is one, is the first segment of p, and
\* no node has exactly the path p; and the status of stat is always one of
\* SUCCESS, INITIALIZATION_ERROR, BAD_PATH, CONFLICTING_PATH, NO_SUCH_PATH
\* and MEMORY_ERROR
C23_StatOfMissingPath ==
    [][op'.name = "stat"
       => /\ (/\ bIsInitialized
              /\ WellFormed(op'.path)
              /\ oNRoot # NULL
                 => heap[oNRoot].path = SubSeq(PathOf(op'.path), 1, 1)
              /\ NodesAt(heap, PathOf(op'.path)) = {})
             => result'.status = NO_SUCH_PATH
          /\ result'.status \in {SUCCESS, INITIALIZATION_ERROR, BAD_PATH,
                                 CONFLICTING_PATH, NO_SUCH_PATH,
                                 MEMORY_ERROR}]_vars

\* the nodes the root leads to whose path is a segment prefix of p
AncestorsOf(h, p) == {n \in DOMAIN h : IsPrefix(h[n].path, p)}

DeepestDepth(h, p) ==
    IF AncestorsOf(h, p) = {} THEN 0
    ELSE CHOOSE d \in 1..Len(p) :
            /\ \E n \in AncestorsOf(h, p) : Len(h[n].path) = d
            /\ \A n \in AncestorsOf(h, p) : Len(h[n].path) <= d

\* C30: a successful insert_dir(p) or insert_file(p) creates one node for
\* each prefix of p deeper than the deepest existing ancestor, all of them
\* directories but the last node of insert_file, raises ulCount by their
\* number, and leaves every node that existed, its kind and its contents
\* as they were
C30_InsertCreatesMissingPrefixes ==
    [][(op'.name \in Inserts /\ result'.status = SUCCESS)
       => /\ {heap'[n].path : n \in DOMAIN heap' \ DOMAIN heap}
             = {SubSeq(PathOf(op'.path), 1, i) :
                   i \in (DeepestDepth(heap, PathOf(op'.path)) + 1)
                         ..Len(PathOf(op'.path))}
          /\ Cardinality(DOMAIN heap' \ DOMAIN heap)
             = Len(PathOf(op'.path)) - DeepestDepth(heap, PathOf(op'.path))
          /\ \A n \in DOMAIN heap' \ DOMAIN heap :
                heap'[n].isFile <=> (/\ op'.name = "insert_file"
                                     /\ heap'[n].path = PathOf(op'.path))
          /\ ulCount' = ulCount + Len(PathOf(op'.path))
                        - DeepestDepth(heap, PathOf(op'.path))
          /\ \A n \in DOMAIN heap :
                /\ n \in DOMAIN heap'
                /\ heap'[n].path = heap[n].path
                /\ heap'[n].parent = heap[n].parent
                /\ heap'[n].isFile = heap[n].isFile
                /\ heap'[n].contents = heap[n].contents
                /\ heap'[n].contentLength = heap[n].contentLength]_vars

\* insert_file has just built a directory of depth 2 and its file of depth
\* 3 below the root
C30_Witness ==
    /\ op.name = "insert_file"
    /\ result.status = SUCCESS
    /\ Len(PathOf(op.path)) = 3
    /\ ulCount = 3
    /\ DOMAIN heap = {Addr(FALSE, SubSeq(PathOf(op.path), 1, 1)),
                      Addr(FALSE, SubSeq(PathOf(op.path), 1, 2)),
                      Addr(TRUE, PathOf(op.path))}

(* ---- node.c ---- *)

\* the address malloc hands out for a struct node of this kind and path
NodeAddr(isDir, path) == [f |-> ~isDir, p |-> path, m |-> "node"]

\* whether the block at this address is a struct node of node.c
IsStructNode(a) == "m" \in DOMAIN a

\* Node_compareDirString that puts a file after the directories
Node_compareDirString_FileAfter(h, oNFirst, pcSecond) ==
    IF h[oNFirst].isDir THEN Path_compareString(h[oNFirst].oPPath, pcSecond)
    ELSE 1

Node_compareDirString(h, oNFirst, pcSecond) ==
    IF h[oNFirst].isDir THEN Path_compareString(h[oNFirst].oPPath, pcSecond)
    ELSE -1

Node_compareFileString(h, oNFirst, pcSecond) ==
    IF ~h[oNFirst].isDir THEN Path_compareString(h[oNFirst].oPPath, pcSecond)
    ELSE 1

Node_compare(h, oNFirst, oNSecond) ==
    IF h[oNFirst].isDir /\ ~h[oNSecond].isDir THEN 1
    ELSE IF ~h[oNFirst].isDir /\ h[oNSecond].isDir THEN -1
    ELSE Path_comparePath(h[oNFirst].oPPath, h[oNSecond].oPPath)

\* addFails is the failure of DynArray_addAt to grow the array
Node_addChild(h, oNParent, oNChild, ulIndex, addFails) ==
    IF addFails THEN [status |-> MEMORY_ERROR, heap |-> h]
    ELSE [status |-> SUCCESS,
          heap |-> [h EXCEPT ![oNParent].contents =
                       DynArray_addAt(h[oNParent].contents, ulIndex, oNChild)]]

\* binary search of the one array, files before directories, for a child
\* of the given kind
Node_hasChild(h, oNParent, oPPath, isDir) ==
    LET arr == h[oNParent].contents
        str == Path_getPathname(oPPath)
    IN  DynArray_bsearch([i \in 1..Len(arr) |->
                             IF isDir
                             THEN Node_compareDirString(h, arr[i], str)
                             ELSE Node_compareFileString(h, arr[i], str)])

\* what strcpy copies: the bytes up to the first 0, and that 0
StrCpy(bytes) ==
    LET z == {i \in 1..Len(bytes) : bytes[i] = 0}
    IN  SubSeq(bytes, 1, CHOOSE i \in z : \A j \in z : i <= j)

\* the struct as Node_new fills it: ulLength is set for a file only
Node_initialized(oPPath, oNParent, isDir, contents, ulLength) ==
    IF isDir
    THEN [oPPath |-> oPPath, oNParent |-> oNParent, isDir |-> TRUE,
          contents |-> <<>>]
    ELSE [oPPath |-> oPPath, oNParent |-> oNParent, isDir |-> FALSE,
          contents |-> IF contents.null THEN NullBuf
                       ELSE Buf(StrCpy(contents.bytes)),
          ulLength |-> ulLength]

\* fault is "node" when the allocation of the struct or of its path fails,
\* "contents" when that of the array or of the bytes does, "link" when
\* linking into the parent does, anything else when none does
Node_new(h, oPPath, oNParent, isDir, contents, ulLength, fault) ==
    LET a == NodeAddr(isDir, oPPath)
        Fail(s) == [status |-> s, heap |-> h, node |-> NULL]
        Linked(add) ==
            IF add.status # SUCCESS THEN Fail(add.status)
            ELSE [status |-> SUCCESS, node |-> a,
                  heap |-> (a :> Node_initialized(oPPath, oNParent, isDir,
                                                  contents, ulLength))
                              @@ add.heap]
        Filled(ulIndex) ==
            IF fault = "contents" /\ (isDir \/ ~contents.null)
            THEN Fail(MEMORY_ERROR)
            ELSE IF oNParent = NULL
            THEN [status |-> SUCCESS, node |-> a,
                  heap |-> (a :> Node_initialized(oPPath, oNParent, isDir,
                                                  contents, ulLength)) @@ h]
            ELSE Linked(Node_addChild(h, oNParent, a, ulIndex,
                                      fault = "link"))
        Searched(same, other) ==
            IF same.found THEN Fail(ALREADY_IN_TREE)
            ELSE IF other.found THEN Fail(ALREADY_IN_TREE)
            ELSE Filled(same.index)
    IN  IF fault = "node" THEN Fail(MEMORY_ERROR)
        ELSE IF oNParent # NULL
        THEN IF Path_getSharedPrefixDepth(oPPath, h[oNParent].oPPath)
                  < Path_getDepth(h[oNParent].oPPath)
             THEN Fail(CONFLICTING_PATH)
             ELSE IF Path_getDepth(oPPath)
                       # Path_getDepth(h[oNParent].oPPath) + 1
             THEN Fail(NO_SUCH_PATH)
             ELSE Searched(Node_hasChild(h, oNParent, oPPath, isDir),
                           Node_hasChild(h, oNParent, oPPath, ~isDir))
        ELSE IF Path_getDepth(oPPath) # 1 THEN Fail(NO_SUCH_PATH)
        ELSE Filled(0)

\* unlinks oNNode from the array of its parent, when the binary search with
\* Node_compare finds it there
Node_unlink(h, oNNode) ==
    IF h[oNNode].oNParent = NULL THEN h
    ELSE LET par == h[oNNode].oNParent
             arr == h[par].contents
             Unlink(r) ==
                 IF r.found
                 THEN [h EXCEPT ![par].contents =
                          DynArray_removeAt(arr, r.index)]
                 ELSE h
         IN  Unlink(DynArray_bsearch([i \in 1..Len(arr) |->
                                         Node_compare(h, arr[i], oNNode)]))

RECURSIVE Node_free(_, _)
RECURSIVE Node_freeChildren(_, _)
\* the loop "while the array is not empty, free its element 0"; hang when
\* the element does not leave the array
Node_freeChildren(h, oNNode) ==
    LET arr == h[oNNode].contents
        Rest(r, rest) ==
            [heap |-> rest.heap, count |-> r.count + rest.count,
             hang |-> rest.hang]
        First(r) ==
            IF r.hang \/ Len(r.heap[oNNode].contents) >= Len(arr)
            THEN [heap |-> r.heap, count |-> r.count, hang |-> TRUE]
            ELSE Rest(r, Node_freeChildren(r.heap, oNNode))
    IN  IF arr = <<>> THEN [heap |-> h, count |-> 0, hang |-> FALSE]
        ELSE First(Node_free(h, arr[1]))

\* frees the subtree of oNNode and counts its nodes
Node_free(h, oNNode) ==
    LET Freed(c) ==
            [heap |-> [a \in DOMAIN c.heap \ {oNNode} |-> c.heap[a]],
             count |-> c.count + 1, hang |-> c.hang]
        Children(h1) ==
            IF h[oNNode].isDir THEN Freed(Node_freeChildren(h1, oNNode))
            ELSE Freed([heap |-> h1, count |-> 0, hang |-> FALSE])
    IN  Children(Node_unlink(h, oNNode))

(* ---- a client of the node modules ---- *)

NodeFaults == {"none", "node", "contents", "link"}

\* the (buffer, length) pairs a client of Node_new passes for a file: no
\* contents, or a string and the size of its bytes; for a directory, whose
\* contents Node_new does not read, it passes none
NodeContentInputs == {<<NullBuf, 0>>, <<Buf(<<1, 0>>), 2>>}

NodeOp(name, path, parent, isFile, fault) ==
    [name |-> name, path |-> path, parent |-> parent, isFile |-> isFile,
     fault |-> fault]

NodeRes(status, node, count) ==
    [status |-> status, node |-> node, count |-> count]

\* the parents a client passes: none while there is no node, afterwards a
\* directory of the module it builds its tree with
NodeFTParents ==
    IF heap = EmptyHeap THEN {NULL}
    ELSE {n \in DOMAIN heap : ~IsStructNode(n) /\ ~heap[n].isFile}

NodeParents ==
    IF heap = EmptyHeap THEN {NULL}
    ELSE {n \in DOMAIN heap : IsStructNode(n) /\ heap[n].isDir}

NodeInit ==
    /\ bIsInitialized = FALSE
    /\ oNRoot = NULL
    /\ ulCount = 0
    /\ heap = EmptyHeap
    /\ op = NodeOp("none", <<>>, NULL, FALSE, "none")
    /\ result = NodeRes("NONE", NULL, 0)
    /\ halted = FALSE
    /\ faults = 0

CallNodeFT_new ==
    /\ \E path \in Paths, isFile \in BOOLEAN, parent \in NodeFTParents,
          fault \in NodeFaults \ {"contents"} :
          LET Returns(r) ==
                  /\ Cardinality(DOMAIN r.heap) <= MaxNodes
                  /\ heap' = r.heap
                  /\ oNRoot' = IF parent = NULL THEN r.node ELSE oNRoot
                  /\ op' = NodeOp("NodeFT_new", path, parent, isFile, fault)
                  /\ result' = NodeRes(r.status, r.node, 0)
          IN  Returns(NodeFT_new(heap, path, parent, isFile, fault))
    /\ UNCHANGED <<bIsInitialized, ulCount, halted, faults>>

CallNodeFT_free ==
    /\ \E node \in {n \in DOMAIN heap : ~IsStructNode(n)} :
          LET Returns(r, root) ==
                  /\ ~r.hang
                  /\ heap' = Sweep(r.heap, root)
                  /\ oNRoot' = root
                  /\ op' = NodeOp("NodeFT_free", heap[node].path, node,
                                  heap[node].isFile, "none")
                  /\ result' = NodeRes("NONE", NULL, r.count)
          IN  Returns(NodeFT_free(heap, node),
                      IF node = oNRoot THEN NULL ELSE oNRoot)
    /\ UNCHANGED <<bIsInitialized, ulCount, halted, faults>>

CallNode_new ==
    /\ \E path \in Paths, isDir \in BOOLEAN, parent \in NodeParents,
          fault \in NodeFaults :
       \E c \in IF isDir THEN {<<NullBuf, 0>>} ELSE NodeContentInputs :
          LET Returns(r) ==
                  /\ Cardinality(DOMAIN r.heap) <= MaxNodes
                  /\ heap' = r.heap
                  /\ oNRoot' = IF parent = NULL THEN r.node ELSE oNRoot
                  /\ op' = NodeOp("Node_new", path, parent, ~isDir, fault)
                  /\ result' = NodeRes(r.status, r.node, 0)
          IN  Returns(Node_new(heap, path, parent, isDir, c[1], c[2], fault))
    /\ UNCHANGED <<bIsInitialized, ulCount, halted, faults>>

CallNode_free ==
    /\ \E node \in {n \in DOMAIN heap : IsStructNode(n)} :
          LET Returns(r) ==
                  /\ ~r.hang
                  /\ heap' = r.heap
                  /\ oNRoot' = IF node = oNRoot THEN NULL ELSE oNRoot
                  /\ op' = NodeOp("Node_free", heap[node].oPPath, node,
                                  ~heap[node].isDir, "none")
                  /\ result' = NodeRes("NONE", NULL, r.count)
          IN  Returns(Node_free(heap, node))
    /\ UNCHANGED <<bIsInitialized, ulCount, halted, faults>>

NodeNext ==
    \/ CallNodeFT_new
    \/ CallNodeFT_free
    \/ CallNode_new
    \/ CallNode_free

NodeSpec == NodeInit /\ [][NodeNext]_vars

\* the children of either kind that the directory lists
ChildrenListed(h, d) ==
    IF IsStructNode(d)
    THEN {h[d].contents[i] : i \in 1..Len(h[d].contents)}
    ELSE {h[d].dirChildren[i] : i \in 1..Len(h[d].dirChildren)}
         \cup {h[d].fileChildren[i] : i \in 1..Len(h[d].fileChildren)}

PathOfNode(h, n) == IF IsStructNode(n) THEN h[n].oPPath ELSE h[n].path

\* a construction, with no allocation failing, under a parent that lists
\* a child of the new path
SiblingExists(o, h) ==
    /\ o.name \in {"NodeFT_new", "Node_new"}
    /\ o.fault = "none"
    /\ o.parent # NULL
    /\ \E c \in ChildrenListed(h, o.parent) : PathOfNode(h, c) = o.path

\* C27: with a non-null parent that already has a child of either kind
\* whose path is the new path, and no allocation failing, NodeFT_new and
\* Node_new return ALREADY_IN_TREE, create no node and leave the child
\* sequences of the parent as they were.
C27_SiblingOfEitherKindRejected ==
    [][SiblingExists(op', heap)
       => /\ result'.status = ALREADY_IN_TREE
          /\ result'.node = NULL
          /\ heap' = heap]_vars

\* the same of Node_new alone
Node_newRejectsSiblingOfEitherKind ==
    [][(SiblingExists(op', heap) /\ op'.name = "Node_new")
       => /\ result'.status = ALREADY_IN_TREE
          /\ result'.node = NULL
          /\ heap' = heap]_vars

(* ---- a client of the path order ---- *)

\* the segments of the compared paths
OrderSegs == {<<"a">>, <<"b">>, <<"b", ".", "c">>, <<"c">>}

OrderPaths == UNION {[1..d -> OrderSegs] : d \in 1..MaxDepth}

PathOp(name, a, b) == [name |-> name, a |-> a, b |-> b]

PathRes(cmp) == [cmp |-> cmp]

\* the client holds two paths
PathInit ==
    /\ bIsInitialized = FALSE
    /\ oNRoot = NULL
    /\ ulCount = 0
    /\ heap = EmptyHeap
    /\ op \in {PathOp("paths", a, b) : a, b \in OrderPaths}
    /\ result = PathRes(0)
    /\ halted = FALSE
    /\ faults = 0

CallPath_comparePath ==
    /\ op.name = "paths"
    /\ op' = PathOp("Path_comparePath", op.a, op.b)
    /\ result' = PathRes(Path_comparePath(op.a, op.b))
    /\ UNCHANGED <<bIsInitialized, oNRoot, ulCount, heap, halted, faults>>

CallPath_compareString ==
    /\ op.name = "paths"
    /\ op' = PathOp("Path_compareString", op.a, op.b)
    /\ result' = PathRes(Path_compareString(op.a, Path_getPathname(op.b)))
    /\ UNCHANGED <<bIsInitialized, oNRoot, ulCount, heap, halted, faults>>

PathNext ==
    \/ CallPath_comparePath
    \/ CallPath_compareString

PathSpec == PathInit /\ [][PathNext]_vars

Sign(c) == IF c < 0 THEN -1 ELSE IF c > 0 THEN 1 ELSE 0

\* the order by the first segment in which a and b differ, a path that is
\* a prefix of the other first
SegmentWise(a, b) ==
    LET k == Path_getSharedPrefixDepth(a, b)
    IN  IF k = Len(a) /\ k = Len(b) THEN 0
        ELSE IF k = Len(a) THEN -1
        ELSE IF k = Len(b) THEN 1
        ELSE Sign(StrCmp(a[k + 1], b[k + 1]))

ChainOfTheText ==
    <<Split(<<"a", "/", "b">>), Split(<<"a", "/", "b", ".", "c">>),
      Split(<<"a", "/", "b", "/", "c">>), Split(<<"a", "/", "c">>)>>

ChainBySegments ==
    <<Split(<<"a", "/", "b">>), Split(<<"a", "/", "b", "/", "c">>),
      Split(<<"a", "/", "b", ".", "c">>), Split(<<"a", "/", "c">>)>>

\* the comparison is segment by segment, and sorts the chain ascending
OrdersChain(chain) ==
    (op.name \in {"Path_comparePath", "Path_compareString"})
    => /\ Sign(result.cmp) = SegmentWise(op.a, op.b)
       /\ \A i, j \in 1..Len(chain) :
             (i < j /\ op.a = chain[i] /\ op.b = chain[j]) => result.cmp < 0

DT_Node_getPath(h, oNNode) == h[oNNode].path

DT_Node_getParent(h, oNNode) == h[oNNode].parent

DT_Node_getNumChildren(h, oNParent) == Len(h[oNParent].dirChildren)

DT_Node_getChild(h, oNParent, ulChildID) ==
    IF ulChildID >= DT_Node_getNumChildren(h, oNParent)
    THEN [status |-> NO_SUCH_PATH, node |-> NULL]
    ELSE [status |-> SUCCESS, node |-> h[oNParent].dirChildren[ulChildID + 1]]

DT_Node_compare(h, oNFirst, oNSecond) ==
    Path_comparePath(h[oNFirst].path, h[oNSecond].path)

CheckerDT_validateChildParentReference(h, oParentNode, oChildNode) ==
    DT_Node_getParent(h, oChildNode) = oParentNode

\* no child of a smaller index compares equal to the child
CheckerDT_checkForDuplicateChildren(h, oParentNode, oChildNode, currentIndex) ==
    \A compareIdx \in 0..(currentIndex - 1) :
        LET Compared(c) ==
                /\ c.status = SUCCESS
                /\ DT_Node_compare(h, oChildNode, c.node) # 0
        IN  Compared(DT_Node_getChild(h, oParentNode, compareIdx))

\* strcmp of the pathname of the previous child with that of the child
CheckerDT_verifyLexicographicalOrder(h, oParentNode, oChildNode, currentIndex) ==
    IF currentIndex > 0
    THEN LET Previous(c) ==
                 /\ c.status = SUCCESS
                 /\ StrCmp(Path_getPathname(DT_Node_getPath(h, c.node)),
                           Path_getPathname(DT_Node_getPath(h, oChildNode)))
                    <= 0
         IN  Previous(DT_Node_getChild(h, oParentNode, currentIndex - 1))
    ELSE TRUE

CheckerDT_Node_isValid(h, oNNode) ==
    IF oNNode = NULL THEN FALSE
    ELSE IF DT_Node_getParent(h, oNNode) # NULL
    THEN Path_getSharedPrefixDepth(
             DT_Node_getPath(h, oNNode),
             DT_Node_getPath(h, DT_Node_getParent(h, oNNode)))
         = Path_getDepth(DT_Node_getPath(h, oNNode)) - 1
    ELSE TRUE

RECURSIVE CheckerDT_treeCheck(_, _, _)
RECURSIVE CheckerDT_validateChildNode(_, _, _, _)
RECURSIVE TreeCheckLoop(_, _, _, _)
\* count is ulVerifiedNodeCount
CheckerDT_validateChildNode(h, oParentNode, childIndex, count) ==
    LET Child(c) ==
            IF c.status # SUCCESS THEN [ok |-> FALSE, count |-> count]
            ELSE IF ~CheckerDT_validateChildParentReference(h, oParentNode,
                                                            c.node)
            THEN [ok |-> FALSE, count |-> count]
            ELSE IF ~CheckerDT_checkForDuplicateChildren(h, oParentNode,
                                                         c.node, childIndex)
            THEN [ok |-> FALSE, count |-> count]
            ELSE IF ~CheckerDT_verifyLexicographicalOrder(h, oParentNode,
                                                          c.node, childIndex)
            THEN [ok |-> FALSE, count |-> count]
            ELSE CheckerDT_treeCheck(h, c.node, count)
    IN  Child(DT_Node_getChild(h, oParentNode, childIndex))

\* the loop of CheckerDT_treeCheck over the children, from childIndex
TreeCheckLoop(h, oNNode, childIndex, count) ==
    IF childIndex >= DT_Node_getNumChildren(h, oNNode)
    THEN [ok |-> TRUE, count |-> count]
    ELSE LET Checked(r) ==
                 IF ~r.ok THEN r
                 ELSE TreeCheckLoop(h, oNNode, childIndex + 1, r.count)
         IN  Checked(CheckerDT_validateChildNode(h, oNNode, childIndex,
                                                 count))

CheckerDT_treeCheck(h, oNNode, count) ==
    IF oNNode = NULL THEN [ok |-> TRUE, count |-> count]
    ELSE IF ~CheckerDT_Node_isValid(h, oNNode)
    THEN [ok |-> FALSE, count |-> count]
    ELSE TreeCheckLoop(h, oNNode, 0, count + 1)

\* CheckerDT_isValid that counts on from what the static holds on entry
CheckerDT_isValid_NoReset(h, isInitialized, root, count, ulVerified0) ==
    LET Walked(r) == [valid |-> r.ok /\ r.count = count,
                      ulVerifiedNodeCount |-> r.count]
    IN  IF ~isInitialized /\ count # 0
        THEN [valid |-> FALSE, ulVerifiedNodeCount |-> ulVerified0]
        ELSE Walked(CheckerDT_treeCheck(h, root, ulVerified0))

\* ulVerified0 is what the static ulVerifiedNodeCount holds on entry, which
\* the first statement overwrites; the result is the verdict and what the
\* static holds on return
CheckerDT_isValid(h, isInitialized, root, count, ulVerified0) ==
    LET Walked(r) == [valid |-> r.ok /\ r.count = count,
                      ulVerifiedNodeCount |-> r.count]
    IN  IF ~isInitialized /\ count # 0
        THEN [valid |-> FALSE, ulVerifiedNodeCount |-> 0]
        ELSE Walked(CheckerDT_treeCheck(h, root, 0))

(* ---- a client of the checkers ---- *)

\* the paths of the nodes handed to a checker
CheckPaths ==
    {Split(<<"a">>), Split(<<"a", ".", "b">>), Split(<<"a", "/", "a">>),
     Split(<<"a", "/", "b">>), Split(<<"a", "/", "a", "/", "a">>)}

\* the address of the k-th node handed to a checker: two of these nodes may
\* have the same path
CheckNode(k) == [f |-> FALSE, p |-> <<>>, k |-> k]

\* the node that lists each node but the first: one numbered before it
Listings(n) == {lp \in [2..n -> 1..n] : \A k \in 2..n : lp[k] < k}

\* the children of the given kind that node k lists, by their number
ListedBy(n, lp, fi, k, isFile) ==
    LET js == SelectSeq([j \in 1..n |-> j],
                        LAMBDA j : j > 1 /\ lp[j] = k /\ fi[j] = isFile)
    IN  [i \in 1..Len(js) |-> CheckNode(js[i])]

\* n nodes, the first one the root, with paths pa, kinds fi and parent
\* links bl, each listed by the node lp gives it
LinkedNodes(n, lp, pa, fi, bl) ==
    [a \in {CheckNode(k) : k \in 1..n} |->
        [path |-> pa[a.k], parent |-> bl[a.k], isFile |-> fi[a.k],
         dirChildren |-> ListedBy(n, lp, fi, a.k, FALSE),
         fileChildren |-> ListedBy(n, lp, fi, a.k, TRUE),
         contents |-> NullBuf, contentLength |-> 0, freed |-> FALSE]]

CheckOp(name, fault) == [name |-> name, fault |-> fault]

\* the verdict of the last call, and the static counter of checkerDT.c
CheckRes(valid, ulVerified) ==
    [valid |-> valid, ulVerifiedNodeCount |-> ulVerified]

CheckerFaults == {"none", "array", "add"}

\* the client holds any tree of at most MaxNodes nodes whose listings are
\* tree-shaped and whose files list nothing: paths, kinds, order of the
\* siblings, parent links and the count are arbitrary
CheckerInit ==
    /\ bIsInitialized \in BOOLEAN
    /\ \E n \in 0..MaxNodes :
          \E lp \in Listings(n), pa \in [1..n -> CheckPaths],
             fi \in [1..n -> BOOLEAN] :
             \E bl \in [1..n -> {NULL} \cup {CheckNode(k) : k \in 1..n}] :
                /\ \A k \in 2..n : ~fi[lp[k]]
                /\ \A k \in 1..n :
                      bl[k] \in IF k = 1 THEN {NULL}
                                ELSE {NULL, CheckNode(lp[k]), CheckNode(1)}
                /\ heap = LinkedNodes(n, lp, pa, fi, bl)
                /\ oNRoot = IF n = 0 THEN NULL ELSE CheckNode(1)
                /\ ulCount \in {0, n}
    /\ op = CheckOp("tree", "none")
    /\ result = CheckRes(FALSE, 0)
    /\ halted = FALSE
    /\ faults = 0

CallCheckerFT_isValid ==
    /\ \E fault \in CheckerFaults :
          /\ op' = CheckOp("CheckerFT_isValid", fault)
          /\ result' = CheckRes(CheckerFT_isValid(heap, bIsInitialized,
                                                  oNRoot, ulCount, fault),
                                result.ulVerifiedNodeCount)
    /\ UNCHANGED <<bIsInitialized, oNRoot, ulCount, heap, halted, faults>>

\* the Directory Tree has directories only
CallCheckerDT_isValid ==
    /\ \A a \in DOMAIN heap : ~heap[a].isFile
    /\ op' = CheckOp("CheckerDT_isValid", "none")
    /\ result' = CheckerDT_isValid(heap, bIsInitialized, oNRoot, ulCount,
                                   result.ulVerifiedNodeCount)
    /\ UNCHANGED <<bIsInitialized, oNRoot, ulCount, heap, halted, faults>>

CheckerNext ==
    \/ CallCheckerFT_isValid
    \/ CallCheckerDT_isValid

CheckerSpec == CheckerInit /\ [][CheckerNext]_vars

Checkers == {"CheckerFT_isValid", "CheckerDT_isValid"}

\* the nodes of either kind that the array(s) of d list
ListedChildren(h, d) ==
    {h[d].dirChildren[i] : i \in 1..Len(h[d].dirChildren)}
    \cup {h[d].fileChildren[i] : i \in 1..Len(h[d].fileChildren)}

\* node and its parent do not meet the parent-path contract
BreaksParentPathContract(h, n) ==
    /\ h[n].parent # NULL
    /\ \/ Path_getSharedPrefixDepth(h[n].path, h[h[n].parent].path)
          # Path_getDepth(h[h[n].parent].path)
       \/ Path_getDepth(h[n].path) # Path_getDepth(h[h[n].parent].path) + 1

\* C24: CheckerFT_isValid and CheckerDT_isValid return FALSE for every
\* initialized tree with a node, not the root, whose path and the path of
\* its parent do not meet the parent-path contract.
C24_CheckerRejectsBrokenContract ==
    (/\ op.name \in Checkers
     /\ bIsInitialized
     /\ \E n \in DOMAIN heap \ {oNRoot} : BreaksParentPathContract(heap, n))
    => ~result.valid

\* C25: CheckerFT_isValid and CheckerDT_isValid return FALSE for every
\* tree in which a node that a directory lists as its child has a parent
\* link that is not that directory.
C25_CheckerRejectsWrongParentLink ==
    (/\ op.name \in Checkers
     /\ \E d \in DOMAIN heap :
           \E c \in ListedChildren(heap, d) : heap[c].parent # d)
    => ~result.valid

\* the same of CheckerDT_isValid alone
CheckerDTRejectsWrongParentLink ==
    (/\ op.name = "CheckerDT_isValid"
     /\ \E d \in DOMAIN heap :
           \E c \in ListedChildren(heap, d) : heap[c].parent # d)
    => ~result.valid

\* the paths of the array do not strictly increase
NotIncreasing(h, arr) ==
    \E i \in 1..(Len(arr) - 1) :
        Path_comparePath(h[arr[i]].path, h[arr[i + 1]].path) >= 0

\* some directory lists siblings out of order, or two of one path
SiblingsOutOfOrder(h) ==
    \E d \in DOMAIN h :
        \/ NotIncreasing(h, h[d].dirChildren)
        \/ NotIncreasing(h, h[d].fileChildren)
        \/ \E c1, c2 \in ListedChildren(h, d) :
              c1 # c2 /\ h[c1].path = h[c2].path

\* C26: the checker returns FALSE for every tree in which a child sequence
\* is not strictly increasing by path: two consecutive siblings are out of
\* order, or two siblings have equal paths.
C26_CheckerRejectsUnsortedSiblings ==
    (op.name \in Checkers /\ SiblingsOutOfOrder(heap)) => ~result.valid

\* the same of CheckerFT_isValid alone
CheckerFTRejectsUnsortedSiblings ==
    (op.name = "CheckerFT_isValid" /\ bIsInitialized
     /\ SiblingsOutOfOrder(heap))
    => ~result.valid

\* the allocation of the copy of the new contents is the one that fails
NewCopyFails == [k |-> 1, at |-> "contents"]

\* the call that has just returned is a replace_file_contents in which the
\* copy of the new contents could not be allocated
ReplaceFailedOnNewCopy ==
    /\ op'.name = "replace_file_contents"
    /\ faults' # faults
    /\ LET Failed(r) ==
               /\ result' = ResPtr(r.ptr)
               /\ heap' = Sweep(r.st.heap, r.st.root)
       IN  Failed(FT_replaceFileContents(State, op'.path, op'.contents,
                                         op'.length, NewCopyFails))

\* C31: when replace_file_contents fails because the copy of the new
\* contents cannot be allocated, it returns NULL and the file keeps the
\* contents and the length it had.
C31_FailedReplaceKeepsContents ==
    [][ReplaceFailedOnNewCopy
       => /\ result'.null
          /\ heap' = heap
          /\ <<bIsInitialized', oNRoot', ulCount'>>
             = <<bIsInitialized, oNRoot, ulCount>>]_vars

\* the nodes of nodeFT.c in the heap
NodeFTNodes(h) == {n \in DOMAIN h : ~IsStructNode(n)}

\* r is what NodeFT_free(node) gives in the heap h: it ends, counts and
\* frees the nodes of the subtree and no other, and takes node, and only
\* node, out of the array of its parent, which stays in order
FreesSubtree(h, node, r, sub) ==
    /\ ~r.hang
    /\ r.count = Cardinality(sub)
    /\ DOMAIN r.heap = DOMAIN h
    /\ \A m \in DOMAIN h : r.heap[m].freed <=> m \in sub
    /\ \A m \in DOMAIN h \ sub :
          /\ m # h[node].parent => r.heap[m] = h[m]
          /\ m = h[node].parent
             => /\ r.heap[m] =
                      [h[m] EXCEPT
                          !.dirChildren = Without(h[m].dirChildren, {node}),
                          !.fileChildren = Without(h[m].fileChildren, {node})]
                /\ \A isFile \in BOOLEAN :
                      \A i \in 1..(Len(ChildArray(r.heap, m, isFile)) - 1) :
                          Path_comparePath(
                              h[ChildArray(r.heap, m, isFile)[i]].path,
                              h[ChildArray(r.heap, m, isFile)[i + 1]].path) < 0

\* C32: NodeFT_free of any node of a tree built by NodeFT_new ends: every
\* loop over a child array shortens it, the count returned is the number
\* of nodes of the subtree, each of which is freed, and the array of the
\* parent loses the node alone and stays sorted.  The states between two
\* iterations of a loop are the states after the free of a first child,
\* which this holds for as well.
C32_FreeWalksSubtreeOnce ==
    \A node \in NodeFTNodes(heap) :
        FreesSubtree(heap, node, NodeFT_free(heap, node),
                     ReachFrom(heap, node))

\* a directory with a child has just been freed, its parent is still there
C32_Witness ==
    /\ op.name = "NodeFT_free"
    /\ result.count = 2
    /\ ~op.isFile
    /\ Cardinality(NodeFTNodes(heap)) = 1
    /\ \A n \in DOMAIN heap : heap[n].dirChildren = <<>>

\* the call that has just returned left the tree and the statics of the
\* facade as they were
CheckerChangedNothing ==
    <<heap', bIsInitialized', oNRoot', ulCount'>>
    = <<heap, bIsInitialized, oNRoot, ulCount>>

RootAndCountAgree ==
    /\ ~bIsInitialized => (oNRoot = NULL /\ ulCount = 0)
    /\ bIsInitialized => (oNRoot = NULL <=> ulCount = 0)

\* C34: in every reachable state an uninitialized facade has a null root
\* and a node count of 0, and an initialized one has a null root exactly
\* when its node count is 0; so an insert_dir of another first segment
\* succeeds once the root directory has been removed.
C34_RootNullIffCountZero ==
    /\ []RootAndCountAgree
    /\ [][(/\ op.name = "idle"
           /\ op'.name = "insert_dir"
           /\ WellFormed(op'.path)
           /\ bIsInitialized
           /\ ulCount = 0
           /\ faults' = faults)
          => result'.status = SUCCESS]_vars

\* C35: in every state the facade reaches no two nodes of the tree have the
\* same path: no directory has a file child and a directory child of one
\* path, although NodeFT_insertChild searches the array of one kind only.
C35_NoTwoNodesOfOnePath ==
    \A n, m \in DOMAIN heap : n # m => heap[n].path # heap[m].path

\* an insert_file of the path of a directory of the tree has just been
\* turned down, and no file of that path was made
C35_Witness ==
    /\ op.name = "insert_file"
    /\ WellFormed(op.path)
    /\ result.status = ALREADY_IN_TREE
    /\ Addr(FALSE, PathOf(op.path)) \in DOMAIN heap
    /\ Len(PathOf(op.path)) > 1
    /\ Addr(TRUE, PathOf(op.path)) \notin DOMAIN heap

\* C36: in every reachable state every element of the file children of a
\* directory is a file, every element of its directory children is a
\* directory, and the parent link of each is the directory that lists it.
C36_ChildrenOfTheirKindAndParent ==
    \A d \in DOMAIN heap :
        /\ \A i \in 1..Len(heap[d].fileChildren) :
              /\ heap[d].fileChildren[i] \in DOMAIN heap
              /\ heap[heap[d].fileChildren[i]].isFile
              /\ heap[heap[d].fileChildren[i]].parent = d
        /\ \A i \in 1..Len(heap[d].dirChildren) :
              /\ heap[d].dirChildren[i] \in DOMAIN heap
              /\ ~heap[heap[d].dirChildren[i]].isFile
              /\ heap[heap[d].dirChildren[i]].parent = d

\* an insert_file has just given a directory that has a directory child its
\* first file child
C36_Witness ==
    /\ op.name = "insert_file"
    /\ result.status = SUCCESS
    /\ \E d \in DOMAIN heap :
          /\ Len(heap[d].fileChildren) = 1
          /\ Len(heap[d].dirChildren) = 1
          /\ heap[heap[d].fileChildren[1]].path = PathOf(op.path)

\* the well-formed directory paths the client has, by their first segment
FirstSegmentOf ==
    [s \in {x \in PathStrings : WellFormed(x)} |-> PathOf(s)[1]]

\* the pairs of well-formed paths of one first segment, each pair once
PairsOfOneRoot ==
    {pq \in (DOMAIN FirstSegmentOf) \X (DOMAIN FirstSegmentOf) :
        /\ FirstSegmentOf[pq[1]] = FirstSegmentOf[pq[2]]
        /\ StrCmp(pq[1], pq[2]) < 0}

\* the two runs have ended in the same tree: the same root, node count and
\* nodes, and the same dump
SameTree(pq, qp) ==
    /\ ~pq.hang /\ ~qp.hang
    /\ pq.st = qp.st
    /\ FT_toString(pq.st, NoFault) = FT_toString(qp.st, NoFault)

\* C37: from every initialized state in which the client can call, for
\* well-formed directory paths p and q of one first segment,
\* insert_dir(p); insert_dir(q) and insert_dir(q); insert_dir(p) end in
\* the same tree, the same root, nodes, node count and dump, whatever each
\* call returns, when no allocation fails.
C37_InsertDirCommutes ==
    (bIsInitialized /\ Ready)
    => LET Runs(first) ==
               \A pq \in PairsOfOneRoot :
                  SameTree(FT_insertDir(first[pq[1]].st, pq[2], NoFault),
                           FT_insertDir(first[pq[2]].st, pq[1], NoFault))
       IN  Runs([p \in DOMAIN FirstSegmentOf |->
                    FT_insertDir(State, p, NoFault)])

\* the tree is the root a alone and the client can call: insert_dir(a/b)
\* after insert_dir(a/b/a) returns ALREADY_IN_TREE, while in the other
\* order both calls return SUCCESS
C37_Witness ==
    /\ bIsInitialized /\ Ready
    /\ ulCount = 1
    /\ oNRoot = Addr(FALSE, <<<<"a">>>>)
    /\ LET Then(first, p) == FT_insertDir(first.st, p, NoFault).status
           ab == Join(<<<<"a">>, <<"b">>>>)
           aba == Join(<<<<"a">>, <<"b">>, <<"a">>>>)
       IN  /\ Then(FT_insertDir(State, aba, NoFault), ab) = ALREADY_IN_TREE
           /\ Then(FT_insertDir(State, ab, NoFault), aba) = SUCCESS

\* the directories of node.c in the heap
NodeDirs(h) == {d \in DOMAIN h : IsStructNode(d) /\ h[d].isDir}

\* the one array holds its files before its directories, and each of the
\* two groups strictly ascending by path
FilesThenDirsAscending(h, arr) ==
    \A i, j \in 1..Len(arr) :
       i < j => /\ ~(h[arr[i]].isDir /\ ~h[arr[j]].isDir)
                /\ h[arr[i]].isDir = h[arr[j]].isDir
                   => Path_comparePath(h[arr[i]].oPPath, h[arr[j]].oPPath) < 0

\* the paths a child of the directory can have
ChildPathsOf(h, d) ==
    {p \in Paths : /\ Len(p) = Len(h[d].oPPath) + 1
                   /\ SubSeq(p, 1, Len(h[d].oPPath)) = h[d].oPPath}

\* the search has found the child of this kind and path exactly when the
\* array holds it, at the index of that child; and has otherwise returned
\* the index at which a new child of this kind and path keeps the order:
\* behind every file when it is a directory, before every directory when it
\* is a file, and between the smaller and the greater paths of its kind
SearchIsExact(h, arr, p, isDir, r) ==
    LET Is(i) == h[arr[i]].isDir = isDir /\ h[arr[i]].oPPath = p
        Before(i) == IF h[arr[i]].isDir # isDir THEN isDir
                     ELSE Path_comparePath(h[arr[i]].oPPath, p) < 0
    IN  /\ r.found <=> \E i \in 1..Len(arr) : Is(i)
        /\ r.found => r.index + 1 \in 1..Len(arr) /\ Is(r.index + 1)
        /\ ~r.found => /\ r.index \in 0..Len(arr)
                       /\ \A i \in 1..Len(arr) : Before(i) <=> i <= r.index

\* C38: in node.c, after any sequence of Node_new and Node_free the one
\* children array of every directory holds all file children before all
\* directory children, each group strictly ascending by path, and
\* Node_hasChild finds a child of the requested kind exactly when the array
\* holds it and otherwise returns the index at which the new child keeps
\* that order, which is where Node_new links it.
C38_OneArrayFilesThenDirs ==
    \A d \in NodeDirs(heap) :
       /\ FilesThenDirsAscending(heap, heap[d].contents)
       /\ \A p \in ChildPathsOf(heap, d), isDir \in BOOLEAN :
             SearchIsExact(heap, heap[d].contents, p, isDir,
                           Node_hasChild(heap, d, p, isDir))

\* Node_new links the new child at the index the search for its kind has
\* returned
Node_newInsertsAtSearchIndex ==
    [][(/\ op'.name = "Node_new"
        /\ op'.parent # NULL
        /\ result'.status = SUCCESS)
       => LET At(r) == heap'[op'.parent].contents
                          = DynArray_addAt(heap[op'.parent].contents,
                                           r.index, result'.node)
          IN  At(Node_hasChild(heap, op'.parent, op'.path, ~op'.isFile))]_vars

\* Node_new has just linked the directory a/a behind the file a/b, its
\* only sibling, although a/a is the smaller path
C38_Witness ==
    /\ op.name = "Node_new"
    /\ result.status = SUCCESS
    /\ result.node = NodeAddr(TRUE, <<<<"a">>, <<"a">>>>)
    /\ heap[NodeAddr(TRUE, <<<<"a">>>>)].contents
           = <<NodeAddr(FALSE, <<<<"a">>, <<"b">>>>),
               NodeAddr(TRUE, <<<<"a">>, <<"a">>>>)>>

\* Node_free has just freed a child and left its only sibling in the array
\* of their parent
Node_freeLeftSibling ==
    /\ op.name = "Node_free"
    /\ result.count = 1
    /\ oNRoot # NULL
    /\ Len(heap[oNRoot].contents) = 1

====
